---- MODULE Spec2Model ----
(***************************************************************************)
(* A model of the RAG front end (enigma-health101/rag_fe):                 *)
(*   - the document status poller of components/admin/DocumentUpload.tsx   *)
(*     together with the document collection held by app/page.tsx;         *)
(*   - the query response normalizer extractQueryData and the sanitizer    *)
(*     cleanResponseContent of the types module, with their two callers.   *)
(*                                                                         *)
(* React is modelled as the code relies on it: a handler closes over the   *)
(* state of the render that created it; a state setter applies a function  *)
(* to the latest state and is ignored once the component instance is       *)
(* unmounted; after a commit the effects whose dependencies changed run,   *)
(* cleanups first.  One action is one event-loop task (a click, a timer    *)
(* callback, an HTTP response) followed by the renders and effects it      *)
(* causes.                                                                 *)
(***************************************************************************)
EXTENDS Integers, Sequences, FiniteSets, TLC

\* ------------------------------------------------------------------ bounds
NumDocs == 2        \* document identifiers 1..NumDocs
MaxStarts == 2      \* process/reprocess requests issued in one behaviour
MaxRefresh == 1     \* collection refreshes awaiting their response
MaxMounts == 2      \* times the Documents tab is opened

Docs == 1..NumDocs

\* Document.status; NoDoc stands for "find() returned undefined".
NoDoc == "none"
Terminal(s) == s \in {"processed", "error"}

VARIABLES
  backend,           \* the backend's status of every document
  documents,         \* page.tsx: const [documents, setDocuments]
  mounted,           \* whether a DocumentUpload instance is mounted
  inst,              \* the number of the instance mounted last
  processing,        \* DocumentUpload: const [processing, setProcessing]
  reprocessing,      \* const [reprocessing, setReprocessing]
  processingTimers,  \* const [processingTimers, ...], keys only
  loadingActions,    \* const [loadingActions, ...], the reprocess-<id> keys
  pollingIntervals,  \* const [pollingIntervals, ...]: id -> handle, 0 = no entry
  intervals,         \* the browser's active setInterval timers with their closures
  requests,          \* process/reprocess requests whose continuation has not run
  refreshes,         \* getDocumentsSummary requests awaiting their response
  starts,            \* process/reprocess requests issued so far
  ev,                \* what the last task did (observation only)
  response,          \* the value queryApi.processQuery resolved to
  answer,            \* what the caller made of it (no caller yet: pending)
  content,           \* the string handed to cleanResponseContent
  cleaned            \* its sanitized forms: after one pass and after two

pollerVars == <<backend, documents, mounted, inst, processing, reprocessing,
                processingTimers, loadingActions, pollingIntervals, intervals,
                requests, refreshes, starts, ev>>

fnVars == <<response, answer, content, cleaned>>

VARIABLES
  host,              \* which owner of a chat list runs: ChatInterface or useChat
  messages,          \* const [messages, setMessages] of that owner
  isLoading,         \* const [isLoading, setIsLoading] of that owner
  queries,           \* its requests awaiting their response
  asked,             \* requests it issued so far
  now,               \* Date.now()
  chatEv             \* what the last chat task did (observation only)

chatVars == <<host, messages, isLoading, queries, asked, now, chatEv>>

VARIABLES
  hookDocuments,     \* useDocuments: const [documents, setDocuments]
  hookIsLoading,     \* useDocuments: const [isLoading, setIsLoading]
  hookError,         \* useDocuments: const [error, setError], TRUE when set
  hookCalls,         \* its requests awaiting their response
  hookAsked,         \* requests it issued so far
  hookEv             \* what its last task did (observation only)

docHookVars == <<hookDocuments, hookIsLoading, hookError, hookCalls, hookAsked, hookEv>>

VARIABLES
  tmMounted,         \* TopicManager: mountedRef.current
  tmTopics,          \* TopicManager: const [topics, setTopics]
  searchQuery,       \* TopicManager: const [searchQuery, setSearchQuery]
  abortControllers,  \* TopicManager: abortControllersRef.current, 0 = no entry
  hookTopics,        \* useTopics: const [topics, setTopics]
  topicRequests,     \* topic requests awaiting their response
  topicAsked,        \* topic requests issued so far
  topicEv            \* what the last topic task did (observation only)

topicVars == <<tmMounted, tmTopics, searchQuery, abortControllers, hookTopics,
               topicRequests, topicAsked, topicEv>>

VARIABLES
  ragPassword,       \* process.env.RAG_PASSWORD of the server
  cookieJar,         \* the rag_auth cookie the client's browser stores
  authenticated,     \* a POST /api/auth succeeded since the last logout
  authEv             \* the last request and its response (observation only)

authVars == <<ragPassword, cookieJar, authenticated, authEv>>

VARIABLES
  maxRetries,        \* retryApiCall: the maxRetries argument
  attempt,           \* retryApiCall: let attempt
  lastError,         \* retryApiCall: let lastError
  calls,             \* how often apiCall was invoked
  outcome            \* retryApiCall: running, returned or threw (and what)

retryVars == <<maxRetries, attempt, lastError, calls, outcome>>

\* One call of a hook operation: the operation called and how it settled.
VARIABLES opCall, opResult

opVars == <<opCall, opResult>>

\* DocumentUpload's destructive actions and their confirmation prompts.
VARIABLES
  selectedDocuments, \* const [selectedDocuments, setSelectedDocuments]
  deleteActions,     \* loadingActions' delete-<id> keys; 0 is 'bulk-delete'
  deletes,           \* delete and batch-delete requests in flight
  deleteAsked,       \* delete requests issued so far
  prompt             \* what the task's confirm() was about and answered

confirmVars == <<selectedDocuments, deleteActions, deletes, deleteAsked, prompt>>

\* useChat: whether a caller still holds the sendMessage callback of the
\* first render, in which isLoading is false.
VARIABLES held

laterVars == <<opVars, confirmVars, held>>

hookVars == <<chatVars, docHookVars, topicVars, authVars, retryVars, laterVars>>

\* ---------------------------------------------------------------- helpers
Range(f) == {f[x] : x \in DOMAIN f}

\* documents.find(d => d.id === documentId), reduced to the status read from it
FindStatus(docs, documentId) == docs[documentId]

NoEv == [op |-> "init", id |-> 0, isRe |-> FALSE, live |-> FALSE,
         inspected |-> NoDoc, stops |-> {}, toasts |-> {}]

\* The component state a task works on, with what the task did so far.
Component ==
  [processing |-> processing, reprocessing |-> reprocessing,
   processingTimers |-> processingTimers, pollingIntervals |-> pollingIntervals,
   intervals |-> intervals, mapSet |-> FALSE, stops |-> {}, toasts |-> {}]

\* clearInterval(handle)
ClearInterval(ivs, handle) == {t \in ivs : t.h # handle}

\* stopPolling(documentId, isReprocessing) of the render whose pollingIntervals
\* holds intervalId for documentId and whose documents holds status `found` for
\* it; live: the state setters of that render's instance still apply.
StopPolling(c, documentId, isReprocessing, intervalId, found, live) ==
  LET c1 == IF intervalId # 0
            THEN [c EXCEPT !.intervals = ClearInterval(@, intervalId),
                           !.pollingIntervals =
                              IF live THEN [@ EXCEPT ![documentId] = 0] ELSE @,
                           !.mapSet = @ \/ live]
            ELSE c
      c2 == IF ~live THEN c1
            ELSE IF isReprocessing
                 THEN [c1 EXCEPT !.reprocessing = @ \ {documentId}]
                 ELSE [c1 EXCEPT !.processing = @ \ {documentId}]
      c3 == IF live THEN [c2 EXCEPT !.processingTimers = @ \ {documentId}] ELSE c2
      note == IF Terminal(found)
              THEN {[id |-> documentId, isRe |-> isReprocessing, kind |-> found]}
              ELSE {}
  IN [c3 EXCEPT !.toasts = @ \cup note,
                !.stops = @ \cup {[id |-> documentId, isRe |-> isReprocessing,
                                   found |-> found, intervalId |-> intervalId,
                                   live |-> live]}]

\* The polling-cleanup effect: when pollingIntervals was set, the cleanup of the
\* previous render runs and clears every interval of the previous map.
PollingCleanup(c, prevMap) ==
  IF c.mapSet
  THEN [c EXCEPT !.intervals = {t \in @ : t.h \notin Range(prevMap)},
                 !.mapSet = FALSE]
  ELSE c

\* The documents the status-monitor effect of a render stops.
MonitorTargets(c, docs) ==
  {d \in Docs : (d \in c.processing \/ d \in c.reprocessing) /\ Terminal(docs[d])}

\* documents.forEach of the status-monitor effect: every call is the stopPolling
\* of the same render r.
RECURSIVE MonitorEach(_, _, _, _)
MonitorEach(c, r, docs, todo) ==
  IF todo = {} THEN c
  ELSE LET d == CHOOSE x \in todo : \A y \in todo : x <= y
       IN MonitorEach(StopPolling(c, d, d \in r.reprocessing,
                                  r.pollingIntervals[d], docs[d], TRUE),
                      r, docs, todo \ {d})

\* The renders and effects that follow a task of a mounted instance, until a
\* render changes nothing.
RECURSIVE Settle(_, _, _)
Settle(c, docs, prevMap) ==
  LET c1 == PollingCleanup(c, prevMap)
      todo == MonitorTargets(c1, docs)
  IN IF todo = {} THEN c1
     ELSE Settle(MonitorEach(c1, c1, docs, todo), docs, c1.pollingIntervals)

\* The state after a task: settled when an instance is mounted.
AfterTask(c, docs) == IF mounted THEN Settle(c, docs, pollingIntervals) ELSE c

Commit(c) ==
  /\ processing' = c.processing
  /\ reprocessing' = c.reprocessing
  /\ processingTimers' = c.processingTimers
  /\ pollingIntervals' = c.pollingIntervals
  /\ intervals' = c.intervals

Observe(op, id, isRe, live, inspected, c) ==
  ev' = [op |-> op, id |-> id, isRe |-> isRe, live |-> live,
         inspected |-> inspected, stops |-> c.stops, toasts |-> c.toasts]

\* ------------------------------------------------------------------- Init
InitStatus == {"uploaded", "processed"}

PollerInit ==
  /\ backend \in [Docs -> InitStatus]
  /\ documents = [d \in Docs |-> NoDoc]
  /\ mounted = FALSE
  /\ inst = 0
  /\ processing = {}
  /\ reprocessing = {}
  /\ processingTimers = {}
  /\ loadingActions = {}
  /\ pollingIntervals = [d \in Docs |-> 0]
  /\ intervals = {}
  /\ requests = {}
  /\ refreshes = {[origin |-> 0, inspected |-> NoDoc]}
  /\ starts = 0
  /\ ev = NoEv

\* ---------------------------------------------------------------- actions
\* page.tsx renders DocumentUpload when activeTab is 'upload': a new instance.
Mount ==
  /\ UNCHANGED <<fnVars, hookVars>>
  /\ ~mounted
  /\ inst < MaxMounts
  /\ mounted' = TRUE
  /\ inst' = inst + 1
  /\ ev' = [NoEv EXCEPT !.op = "mount"]
  /\ UNCHANGED <<backend, documents, processing, reprocessing, processingTimers,
                 loadingActions, pollingIntervals, intervals, requests,
                 refreshes, starts>>

\* Leaving the tab unmounts the instance: the polling-cleanup effect's cleanup
\* clears the intervals of the committed map; the instance's state is gone.
Unmount ==
  /\ UNCHANGED <<fnVars, hookVars>>
  /\ mounted
  /\ mounted' = FALSE
  /\ intervals' = {t \in intervals : t.h \notin Range(pollingIntervals)}
  /\ processing' = {}
  /\ reprocessing' = {}
  /\ processingTimers' = {}
  /\ loadingActions' = {}
  /\ pollingIntervals' = [d \in Docs |-> 0]
  /\ ev' = [NoEv EXCEPT !.op = "unmount"]
  /\ UNCHANGED <<backend, documents, inst, requests, refreshes, starts>>

\* The request a handler of the current render issues for document d.
NewRequest(kind, d) ==
  [n |-> starts + 1, kind |-> kind, id |-> d, isRe |-> (kind = "reprocess"),
   found |-> FindStatus(documents, d), intervalId |-> pollingIntervals[d],
   inst |-> inst, phase |-> "sent"]

\* processDocument(documentId) up to its await (the Process button is rendered
\* for an 'uploaded' document and disabled while processing.has(id)).
ProcessDocument(d) ==
  /\ UNCHANGED <<fnVars, hookVars>>
  /\ mounted
  /\ starts < MaxStarts
  /\ documents[d] = "uploaded"
  /\ d \notin processing
  /\ LET c0 == Component
         c1 == [c0 EXCEPT !.processing = @ \cup {d},
                          !.processingTimers = @ \cup {d}]
         c == AfterTask(c1, documents)
     IN /\ Commit(c)
        /\ Observe("process", d, FALSE, TRUE, NoDoc, c)
  /\ requests' = requests \cup {NewRequest("process", d)}
  /\ starts' = starts + 1
  /\ UNCHANGED <<backend, documents, mounted, inst, loadingActions, refreshes>>

\* reprocessDocument(documentId) up to its await, the prompt confirmed (the
\* Reprocess button is rendered for a 'processed' or 'error' document and
\* disabled while loadingActions or reprocessing holds the id).
ReprocessStart(d) ==
  /\ mounted
  /\ starts < MaxStarts
  /\ Terminal(documents[d])
  /\ d \notin reprocessing
  /\ d \notin loadingActions
  /\ LET c0 == Component
         c1 == [c0 EXCEPT !.reprocessing = @ \cup {d},
                          !.processingTimers = @ \cup {d}]
         c == AfterTask(c1, documents)
     IN /\ Commit(c)
        /\ Observe("reprocess", d, TRUE, TRUE, NoDoc, c)
  /\ loadingActions' = loadingActions \cup {d}
  /\ requests' = requests \cup {NewRequest("reprocess", d)}
  /\ starts' = starts + 1
  /\ UNCHANGED <<backend, documents, mounted, inst, refreshes>>

ReprocessDocument(d) ==
  /\ UNCHANGED <<fnVars, hookVars>>
  /\ ReprocessStart(d)

\* The backend answers a start request: accepted (the document is now being
\* processed) or refused.
BackendServe(req, ok) ==
  /\ UNCHANGED <<fnVars, hookVars>>
  /\ req \in requests
  /\ req.phase = "sent"
  /\ requests' = (requests \ {req}) \cup
                   {[req EXCEPT !.phase = IF ok THEN "ok" ELSE "fail"]}
  /\ backend' = IF ok THEN [backend EXCEPT ![req.id] = "processing"] ELSE backend
  /\ ev' = [NoEv EXCEPT !.op = "serve", !.id = req.id]
  /\ UNCHANGED <<documents, mounted, inst, processing, reprocessing,
                 processingTimers, loadingActions, pollingIntervals, intervals,
                 refreshes, starts>>

\* The backend finishes processing a document.
BackendFinish(d, s) ==
  /\ UNCHANGED <<fnVars, hookVars>>
  /\ backend[d] = "processing"
  /\ backend' = [backend EXCEPT ![d] = s]
  /\ ev' = [NoEv EXCEPT !.op = "finish", !.id = d]
  /\ UNCHANGED <<documents, mounted, inst, processing, reprocessing,
                 processingTimers, loadingActions, pollingIntervals, intervals,
                 requests, refreshes, starts>>

\* startPolling(documentId, isReprocessing) of the render that issued req:
\* pollStatus closes over that render's documents and stopPolling.
StartPolling(c, req, live) ==
  LET timer == [h |-> req.n, id |-> req.id, isRe |-> req.isRe,
                found |-> req.found, intervalId |-> req.intervalId,
                inst |-> req.inst, seen |-> FALSE, late |-> 0]
  IN [c EXCEPT !.intervals = @ \cup {timer},
               !.pollingIntervals = IF live THEN [@ EXCEPT ![req.id] = req.n] ELSE @,
               !.mapSet = @ \/ live]

\* The catch blocks of processDocument and reprocessDocument.
StartFailed(c, req, live) ==
  IF ~live THEN c
  ELSE IF req.isRe
       THEN [c EXCEPT !.reprocessing = @ \ {req.id},
                      !.processingTimers = @ \ {req.id}]
       ELSE [c EXCEPT !.processing = @ \ {req.id},
                      !.processingTimers = @ \ {req.id}]

\* processDocument / reprocessDocument after the await.
StartResponse(req) ==
  /\ UNCHANGED <<fnVars, hookVars>>
  /\ req \in requests
  /\ req.phase # "sent"
  /\ LET live == mounted /\ req.inst = inst
         c1 == IF req.phase = "ok" THEN StartPolling(Component, req, live)
               ELSE StartFailed(Component, req, live)
         c == AfterTask(c1, documents)
     IN /\ Commit(c)
        /\ Observe(IF req.phase = "ok" THEN "started" ELSE "startFailed",
                   req.id, req.isRe, live, NoDoc, c)
        /\ loadingActions' = IF live /\ req.isRe THEN loadingActions \ {req.id}
                             ELSE loadingActions
  /\ requests' = requests \ {req}
  /\ UNCHANGED <<backend, documents, mounted, inst, refreshes, starts>>

\* The status pollStatus inspects: the documents of the closure.
Inspected(t) == t.found

\* One run of pollStatus, the callback of timer t.
PollTick(t) ==
  /\ UNCHANGED <<fnVars, hookVars>>
  /\ t \in intervals
  /\ Cardinality(refreshes) < MaxRefresh
  /\ LET live == mounted /\ t.inst = inst
         t1 == [t EXCEPT !.late = IF t.seen /\ @ < 2 THEN @ + 1 ELSE @]
         c0 == [Component EXCEPT !.intervals = (@ \ {t}) \cup {t1}]
         c1 == IF Terminal(Inspected(t))
               THEN StopPolling(c0, t.id, t.isRe, t.intervalId, t.found, live)
               ELSE c0
         c == AfterTask(c1, documents)
     IN /\ Commit(c)
        /\ Observe("tick", t.id, t.isRe, live, Inspected(t), c)
        /\ refreshes' = refreshes \cup
                          {[origin |-> t.id, inspected |-> Inspected(t)]}
  /\ UNCHANGED <<backend, documents, mounted, inst, loadingActions, requests,
                 starts>>

\* The Refresh button: onClick={onDocumentsRefresh}.
ManualRefresh ==
  /\ UNCHANGED <<fnVars, hookVars>>
  /\ mounted
  /\ Cardinality(refreshes) < MaxRefresh
  /\ [origin |-> 0, inspected |-> NoDoc] \notin refreshes
  /\ refreshes' = refreshes \cup {[origin |-> 0, inspected |-> NoDoc]}
  /\ ev' = [NoEv EXCEPT !.op = "refreshClick"]
  /\ UNCHANGED <<backend, documents, mounted, inst, processing, reprocessing,
                 processingTimers, loadingActions, pollingIntervals, intervals,
                 requests, starts>>

\* loadDocuments after its await: setDocuments(summary.documents).
LoadDocuments(r) ==
  /\ UNCHANGED <<fnVars, hookVars>>
  /\ r \in refreshes
  /\ refreshes' = refreshes \ {r}
  /\ documents' = backend
  /\ LET marked == {[t EXCEPT !.seen = @ \/ Terminal(backend[t.id])] : t \in intervals}
         c == AfterTask([Component EXCEPT !.intervals = marked], backend)
     IN /\ Commit(c)
        /\ Observe("refresh", r.origin, FALSE, mounted, r.inspected, c)
  /\ UNCHANGED <<backend, mounted, inst, loadingActions, requests, starts>>

\* loadDocuments when the request fails: logged, documents kept.
LoadDocumentsFailed(r) ==
  /\ UNCHANGED <<fnVars, hookVars>>
  /\ r \in refreshes
  /\ refreshes' = refreshes \ {r}
  /\ ev' = [NoEv EXCEPT !.op = "refreshFailed", !.id = r.origin]
  /\ UNCHANGED <<backend, documents, mounted, inst, processing, reprocessing,
                 processingTimers, loadingActions, pollingIntervals, intervals,
                 requests, starts>>

UserNext ==
  \/ Mount
  \/ Unmount
  \/ ManualRefresh
  \/ \E d \in Docs : ProcessDocument(d)
  \/ \E d \in Docs : ReprocessDocument(d)

SystemNext ==
  \/ \E req \in requests, ok \in BOOLEAN : BackendServe(req, ok)
  \/ \E d \in Docs, s \in {"processed", "error"} : BackendFinish(d, s)
  \/ \E req \in requests : StartResponse(req)
  \/ \E t \in intervals : PollTick(t)
  \/ \E r \in refreshes : LoadDocuments(r)
  \/ \E r \in refreshes : LoadDocumentsFailed(r)

Next == UserNext \/ SystemNext

\* ------------------------------------------------- the types module: values
\* JavaScript values as far as the normalizer reads them.
Undefined == [t |-> "undefined"]
Null == [t |-> "null"]
Bool(b) == [t |-> "boolean", b |-> b]
Str(s) == [t |-> "string", s |-> s]
Obj(f) == [t |-> "object", f |-> f]

\* v?.k
Get(v, k) == IF v.t = "object" /\ k \in DOMAIN v.f THEN v.f[k] ELSE Undefined

\* The truthiness an if, && or ! tests.
Truthy(v) ==
  CASE v.t = "undefined" -> FALSE
    [] v.t = "null" -> FALSE
    [] v.t = "boolean" -> v.b
    [] v.t = "string" -> v.s # << >>
    [] OTHER -> TRUE

\* extractQueryData with the singly-nested shape tested before the doubly-nested.
extractQueryDataDataFirst(resp) ==
  IF Truthy(Get(Get(resp, "data"), "response"))
  THEN Get(resp, "data")
  ELSE IF Truthy(Get(Get(resp, "data"), "success")) /\ Truthy(Get(Get(resp, "data"), "data"))
       THEN Get(Get(resp, "data"), "data")
       ELSE IF Truthy(Get(resp, "response"))
            THEN resp
            ELSE Null

\* extractQueryData(response)
extractQueryData(resp) ==
  IF Truthy(Get(Get(resp, "data"), "success")) /\ Truthy(Get(Get(resp, "data"), "data"))
  THEN Get(Get(resp, "data"), "data")
  ELSE IF Truthy(Get(Get(resp, "data"), "response"))
       THEN Get(resp, "data")
       ELSE IF Truthy(Get(resp, "response"))
            THEN resp
            ELSE Null

\* ---------------------------------------------- the types module: sanitizer
\* Strings are sequences of characters.  The i flag of the three patterns:
\* the capital letters of the model's alphabet and their lower case.
Capitals == [c \in {"T", "R", "F", "P", "D"} |->
               CASE c = "T" -> "t" [] c = "R" -> "r" [] c = "F" -> "f"
                 [] c = "P" -> "p" [] OTHER -> "d"]
Lower(c) == IF c \in DOMAIN Capitals THEN Capitals[c] ELSE c

\* String.prototype.trim strips these (of the model's alphabet).
Whitespace == {" ", "\n"}

ThinkOpen == <<"<", "t", "h", "i", "n", "k", ">">>
ThinkClose == <<"<", "/", "t", "h", "i", "n", "k", ">">>
ReasoningTags == {<<"<", "r", "e", "a", "s", "o", "n", "i", "n", "g", ">">>,
                  <<"<", "/", "r", "e", "a", "s", "o", "n", "i", "n", "g", ">">>}
AnswerTags == {<<"<", "f", "i", "n", "a", "l", "_", "a", "n", "s", "w", "e", "r", ">">>,
               <<"<", "/", "f", "i", "n", "a", "l", "_", "a", "n", "s", "w", "e", "r", ">">>}

\* The (lower-case) literal pat matches s at position i, ignoring case.
MatchAt(s, i, pat) ==
  /\ i + Len(pat) - 1 <= Len(s)
  /\ \A k \in 1..Len(pat) : Lower(s[i + k - 1]) = pat[k]

\* The positions at or after i where </think> matches.
Closings(s, i) == {j \in i..Len(s) : MatchAt(s, j, ThinkClose)}

\* content.replace(/<think>[\s\S]*?<\/think>/gi, ''), scanning from position i:
\* a match starts at an opening tag that has a closing tag after it and ends
\* with the first such closing tag.
RECURSIVE RemoveThink(_, _)
RemoveThink(s, i) ==
  IF i > Len(s) THEN << >>
  ELSE IF MatchAt(s, i, ThinkOpen) /\ Closings(s, i + Len(ThinkOpen)) # {}
       THEN LET j == CHOOSE x \in Closings(s, i + Len(ThinkOpen)) :
                       \A y \in Closings(s, i + Len(ThinkOpen)) : x <= y
            IN RemoveThink(s, j + Len(ThinkClose))
       ELSE <<s[i]>> \o RemoveThink(s, i + 1)

\* s.replace(/<\/?name>/gi, ''), scanning from position i, tags the two
\* literals the pattern matches.
RECURSIVE RemoveTags(_, _, _)
RemoveTags(s, i, tags) ==
  IF i > Len(s) THEN << >>
  ELSE IF \E tag \in tags : MatchAt(s, i, tag)
       THEN LET tag == CHOOSE x \in tags : MatchAt(s, i, x)
            IN RemoveTags(s, i + Len(tag), tags)
       ELSE <<s[i]>> \o RemoveTags(s, i + 1, tags)

\* String.prototype.trim
RECURSIVE Trim(_)
Trim(s) ==
  IF s = << >> THEN s
  ELSE IF Head(s) \in Whitespace THEN Trim(Tail(s))
  ELSE IF s[Len(s)] \in Whitespace THEN Trim(SubSeq(s, 1, Len(s) - 1))
  ELSE s

\* cleanResponseContent(content) for a string
cleanResponseContent(s) ==
  IF s = << >> THEN << >>
  ELSE LET withoutThinkTags == RemoveThink(s, 1)
           withoutReasoningTags == RemoveTags(withoutThinkTags, 1, ReasoningTags)
           withoutAnswerTags == RemoveTags(withoutReasoningTags, 1, AnswerTags)
       IN Trim(withoutAnswerTags)

\* cleanResponseContent(queryData.response): '' for a missing (falsy) value
CleanValue(v) == IF v.t = "string" THEN cleanResponseContent(v.s) ELSE << >>

\* ------------------------------------------------------- the two callers
NoAnswer == [by |-> "none"]

\* The content of the error bubble of each caller (its first words).
SubmitApology == <<"I", " ", "a", "p", "o", "l", "o", "g", "i", "z", "e">>
SendApology == <<"S", "o", "r", "r", "y">>

\* A caller without the check of the sanitized answer.
ReplyUnchecked(by, resp, apology) ==
  LET queryData == extractQueryData(resp)
      cleanedResponse == CleanValue(Get(queryData, "response"))
  IN IF ~Truthy(queryData)
     THEN [by |-> by, queryData |-> queryData, content |-> apology,
           error |-> TRUE, toastError |-> TRUE]
     ELSE [by |-> by, queryData |-> queryData, content |-> cleanedResponse,
           error |-> FALSE, toastError |-> FALSE]

\* try/catch of a caller once processQuery resolved: the assistant message it
\* appends and whether toast.error is called.
Reply(by, resp, apology) ==
  LET queryData == extractQueryData(resp)
      cleanedResponse == CleanValue(Get(queryData, "response"))
  IN IF ~Truthy(queryData) \/ cleanedResponse = << >>
     THEN [by |-> by, queryData |-> queryData, content |-> apology,
           error |-> TRUE, toastError |-> TRUE]
     ELSE [by |-> by, queryData |-> queryData, content |-> cleanedResponse,
           error |-> FALSE, toastError |-> FALSE]

\* ChatInterface.handleSubmit after await queryApi.processQuery(text)
HandleSubmitReply ==
  /\ answer = NoAnswer
  /\ answer' = Reply("handleSubmit", response, SubmitApology)
  /\ UNCHANGED <<response, content, cleaned>>
  /\ UNCHANGED <<pollerVars, hookVars>>

\* useChat.sendMessage after await queryApi.processQuery(content.trim())
SendMessageReply ==
  /\ answer = NoAnswer
  /\ answer' = Reply("sendMessage", response, SendApology)
  /\ UNCHANGED <<response, content, cleaned>>
  /\ UNCHANGED <<pollerVars, hookVars>>

\* The answer texts a backend response carries in the model.
Texts == {<< >>, <<"o", "k">>, <<" ">>, <<"<", "t", "h", "i", "n", "k", ">", "x", "<", "/", "t", "h", "i", "n", "k", ">">>}
ResponseFields == {Undefined} \cup {Str(s) : s \in Texts}
InnerObjects == {Obj([response |-> r]) : r \in ResponseFields}
DataObjects ==
  {Obj([success |-> ok, data |-> d, response |-> r]) :
     ok \in {Undefined, Bool(FALSE), Bool(TRUE)},
     d \in {Undefined, Null} \cup InnerObjects,
     r \in ResponseFields}
Responses ==
  {Undefined} \cup
  {Obj([data |-> d, response |-> r]) :
     d \in {Undefined, Null} \cup DataObjects, r \in ResponseFields}

\* One application of the sanitizer to its own last output.
Sanitize ==
  /\ cleaned.pass < 2
  /\ cleaned' = IF cleaned.pass = 0
                THEN [pass |-> 1, once |-> cleanResponseContent(content),
                      twice |-> << >>]
                ELSE [cleaned EXCEPT !.pass = 2,
                                     !.twice = cleanResponseContent(cleaned.once)]
  /\ UNCHANGED <<response, answer, content>>
  /\ UNCHANGED <<pollerVars, hookVars>>

\* The pieces the sanitizer's inputs are put together from.
MaxPieces == 3
Pieces == {ThinkOpen, ThinkClose, <<"<", "r", "e", "a", "s", "o", "n", "i", "n", "g", ">">>, <<"<", "/", "r", "e", "a", "s", "o", "n", "i", "n", "g", ">">>,
           <<"<", "f", "i", "n", "a", "l", "_", "a", "n", "s", "w", "e", "r", ">">>, <<"<", "/", "f", "i", "n", "a", "l", "_", "a", "n", "s", "w", "e", "r", ">">>,
           <<"<", "r", "e", "a">>, <<"s", "o", "n", "i", "n", "g", ">">>,
           <<"<", "T", "h", "i", "n", "k", ">">>, <<"x">>, <<" ">>, <<"\n">>}

RECURSIVE Concat(_)
Concat(ps) == IF ps = << >> THEN << >> ELSE Head(ps) \o Concat(Tail(ps))

Contents == UNION {{Concat(ps) : ps \in [1..n -> Pieces]} : n \in 0..MaxPieces}

\* ------------------------------------- the chat lists and their handlers
\* ChatInterface keeps its own messages/isLoading; useChat keeps another pair
\* with the same submit logic.  host says which of the two a behaviour runs.
Hosts == {"ChatInterface", "useChat"}

MaxMessages == 3    \* messages in a chat list
MaxQueries == 2     \* requests a chat owner issues in one behaviour
MaxNow == 1         \* Date.now() advances up to this many milliseconds
Ratings == {5}

\* An array value, by its length.
Arr(n) == [t |-> "array", n |-> n]

NoChatEv == [op |-> "none", id |-> 0, rating |-> 0, stored |-> FALSE,
             resolved |-> FALSE, failed |-> FALSE, appended |-> << >>, toastError |-> FALSE,
             toastThanks |-> FALSE, called |-> FALSE]

\* A chat message: its id, type and content; whether its content is backend
\* text and which; whether it carries topic analyses and a query id; its
\* rating (0: none).
UserMessage(id) ==
  [id |-> id, type |-> "user", content |-> <<"q">>, backend |-> FALSE,
   raw |-> << >>, analyses |-> FALSE, queryId |-> FALSE, rating |-> 0]

ErrorMessage(id, apology) ==
  [id |-> id, type |-> "assistant", content |-> apology, backend |-> FALSE,
   raw |-> << >>, analyses |-> FALSE, queryId |-> FALSE, rating |-> 0]

\* topicAnalyses: queryData.topic_analyses || [], tested with length > 0
HasAnalyses(queryData) ==
  LET a == Get(queryData, "topic_analyses") IN a.t = "array" /\ a.n > 0

AssistantMessage(id, text, raw, queryData) ==
  [id |-> id, type |-> "assistant", content |-> text, backend |-> TRUE,
   raw |-> raw, analyses |-> HasAnalyses(queryData),
   queryId |-> Truthy(Get(queryData, "query_id")), rating |-> 0]

\* A submit handler that appends nothing when the answer is unusable.
ReplyMessagesSilent(r, id) ==
  IF r.error THEN << >>
  ELSE <<AssistantMessage(id, r.content, Get(r.queryData, "response").s, r.queryData)>>

\* The messages the try/catch of a submit handler appends for its outcome r.
ReplyMessages(r, id) ==
  IF r.error THEN <<ErrorMessage(id, r.content)>>
  ELSE <<AssistantMessage(id, r.content, Get(r.queryData, "response").s, r.queryData)>>

SubmitBy == IF host = "ChatInterface" THEN "handleSubmit" ELSE "sendMessage"
Apology == IF host = "ChatInterface" THEN SubmitApology ELSE SendApology

\* The responses of the query endpoints in the model: none of the shapes, or
\* the doubly nested one around an answer text, with topic analyses and a
\* query id or without both.
QueryData(text, n, q) ==
  Obj([response |-> Str(text), topic_analyses |-> Arr(n),
       query_id |-> IF q THEN Str(<<"i", "d">>) ELSE Undefined])
ChatResponses ==
  {Undefined} \cup
  {Obj([data |-> Obj([success |-> Bool(TRUE), data |-> QueryData(t, n, n = 1)])]) :
     t \in Texts, n \in {0, 1}}

Ids == {messages[i].id : i \in 1..Len(messages)}

\* messages.findIndex(msg => msg.id === messageId), 0 when there is none
FindIndex(id) ==
  IF id \in Ids
  THEN CHOOSE i \in 1..Len(messages) :
         messages[i].id = id /\ \A j \in 1..(i - 1) : messages[j].id # id
  ELSE 0

RECURSIVE Filter(_, _)
Filter(ms, id) ==
  IF ms = << >> THEN << >>
  ELSE IF Head(ms).id = id THEN Filter(Tail(ms), id)
       ELSE <<Head(ms)>> \o Filter(Tail(ms), id)

\* A rating that also moves the rated message to the end of the list.
SetRatingMoved(ms, id, rating) ==
  Filter(ms, id) \o
    [i \in 1..Len(ms) - Len(Filter(ms, id)) |-> [UserMessage(id) EXCEPT !.rating = rating]]

\* prev.map(msg => msg.id === messageId ? { ...msg, rating } : msg)
SetRating(ms, id, rating) ==
  [i \in 1..Len(ms) |-> IF ms[i].id = id THEN [ms[i] EXCEPT !.rating = rating]
                        ELSE ms[i]]

\* The clock moves on between two tasks.
ClockTick ==
  /\ now < MaxNow
  /\ now' = now + 1
  /\ chatEv' = [NoChatEv EXCEPT !.op = "clock"]
  /\ UNCHANGED <<host, messages, isLoading, queries, asked>>
  /\ UNCHANGED <<pollerVars, fnVars, docHookVars, topicVars, authVars, retryVars, laterVars>>

\* handleSubmit / sendMessage up to the first await, for an accepted text
Submit ==
  /\ ~isLoading
  /\ asked < MaxQueries
  /\ Len(messages) < MaxMessages
  /\ messages' = Append(messages, UserMessage(now))
  /\ isLoading' = TRUE
  /\ asked' = asked + 1
  /\ queries' = queries \cup {[n |-> asked + 1, kind |-> "query", id |-> 0, rating |-> 0]}
  /\ chatEv' = [NoChatEv EXCEPT !.op = "submit", !.appended = <<UserMessage(now)>>]
  /\ UNCHANGED <<host, now>>
  /\ UNCHANGED <<pollerVars, fnVars, docHookVars, topicVars, authVars, retryVars, laterVars>>

\* the rest of handleSubmit / sendMessage once processQuery resolved to resp
QueryReply(q, resp) ==
  /\ q.kind = "query"
  /\ LET r == Reply(SubmitBy, resp, Apology)
         new == ReplyMessages(r, now + 1)
     IN /\ messages' = messages \o new
        /\ chatEv' = [NoChatEv EXCEPT !.op = "reply", !.failed = r.error,
                                      !.resolved = Truthy(r.queryData),
                                      !.appended = new, !.toastError = r.toastError]
  /\ isLoading' = FALSE
  /\ queries' = queries \ {q}
  /\ UNCHANGED <<host, asked, now>>
  /\ UNCHANGED <<pollerVars, fnVars, docHookVars, topicVars, authVars, retryVars, laterVars>>

\* ... and once processQuery rejected: the catch block
QueryFailed(q) ==
  /\ q.kind = "query"
  /\ messages' = Append(messages, ErrorMessage(now + 1, Apology))
  /\ chatEv' = [NoChatEv EXCEPT !.op = "reply", !.failed = TRUE,
                                !.appended = <<ErrorMessage(now + 1, Apology)>>,
                                !.toastError = TRUE]
  /\ isLoading' = FALSE
  /\ queries' = queries \ {q}
  /\ UNCHANGED <<host, asked, now>>
  /\ UNCHANGED <<pollerVars, fnVars, docHookVars, topicVars, authVars, retryVars, laterVars>>

\* [...messages].reverse().find(m => m.type === 'assistant' && m.topicAnalyses
\* && m.topicAnalyses.length > 0) found a message
HasAnalysed ==
  \E i \in 1..Len(messages) : messages[i].type = "assistant" /\ messages[i].analyses

\* ChatInterface.handleQuickAction without an analysed answer: a toast only
QuickActionRefused ==
  /\ host = "ChatInterface"
  /\ ~HasAnalysed
  /\ chatEv' = [NoChatEv EXCEPT !.op = "quickRefused", !.toastError = TRUE]
  /\ UNCHANGED <<host, messages, isLoading, queries, asked, now>>
  /\ UNCHANGED <<pollerVars, fnVars, docHookVars, topicVars, authVars, retryVars, laterVars>>

\* ChatInterface.handleQuickAction up to its await
QuickAction ==
  /\ host = "ChatInterface"
  /\ HasAnalysed
  /\ asked < MaxQueries
  /\ Len(messages) < MaxMessages
  /\ isLoading' = TRUE
  /\ messages' = Append(messages, UserMessage(now))
  /\ asked' = asked + 1
  /\ queries' = queries \cup {[n |-> asked + 1, kind |-> "quick", id |-> 0, rating |-> 0]}
  /\ chatEv' = [NoChatEv EXCEPT !.op = "quick", !.appended = <<UserMessage(now)>>]
  /\ UNCHANGED <<host, now>>
  /\ UNCHANGED <<pollerVars, fnVars, docHookVars, topicVars, authVars, retryVars, laterVars>>

\* the rest of handleQuickAction once the endpoint resolved to resp
QuickReply(q, resp) ==
  /\ q.kind = "quick"
  /\ LET responseContent == Get(Get(Get(resp, "data"), "data"), "response")
         new == IF Truthy(responseContent)
                THEN <<AssistantMessage(now + 1, responseContent.s,
                                        responseContent.s, Undefined)>>
                ELSE << >>
     IN /\ messages' = messages \o new
        /\ chatEv' = [NoChatEv EXCEPT !.op = "quickReply",
                                      !.failed = ~Truthy(responseContent),
                                      !.appended = new,
                                      !.toastError = ~Truthy(responseContent)]
  /\ isLoading' = FALSE
  /\ queries' = queries \ {q}
  /\ UNCHANGED <<host, asked, now>>
  /\ UNCHANGED <<pollerVars, fnVars, docHookVars, topicVars, authVars, retryVars, laterVars>>

\* ... and once it rejected
QuickFailed(q) ==
  /\ q.kind = "quick"
  /\ chatEv' = [NoChatEv EXCEPT !.op = "quickReply", !.failed = TRUE,
                                !.toastError = TRUE]
  /\ isLoading' = FALSE
  /\ queries' = queries \ {q}
  /\ UNCHANGED <<host, messages, asked, now>>
  /\ UNCHANGED <<pollerVars, fnVars, docHookVars, topicVars, authVars, retryVars, laterVars>>

\* useChat.clearMessages
ClearMessages ==
  /\ host = "useChat"
  /\ messages # << >>
  /\ messages' = << >>
  /\ chatEv' = [NoChatEv EXCEPT !.op = "clear"]
  /\ UNCHANGED <<host, isLoading, queries, asked, now>>
  /\ UNCHANGED <<pollerVars, fnVars, docHookVars, topicVars, authVars, retryVars, laterVars>>

\* useChat.removeMessage(messageId)
RemoveMessage(messageId) ==
  /\ host = "useChat"
  /\ messages' = Filter(messages, messageId)
  /\ chatEv' = [NoChatEv EXCEPT !.op = "remove", !.id = messageId]
  /\ UNCHANGED <<host, isLoading, queries, asked, now>>
  /\ UNCHANGED <<pollerVars, fnVars, docHookVars, topicVars, authVars, retryVars, laterVars>>

\* message && message.type === 'assistant' && message.queryId
Stored(messageId) ==
  LET i == FindIndex(messageId)
  IN i # 0 /\ messages[i].type = "assistant" /\ messages[i].queryId

\* useChat.rateMessage(messageId, rating) up to its await, or to its end when
\* the message has no query id
RateMessage(messageId, rating) ==
  /\ host = "useChat"
  /\ IF Stored(messageId)
     THEN /\ asked < MaxQueries
          /\ asked' = asked + 1
          /\ queries' = queries \cup {[n |-> asked + 1, kind |-> "rate",
                                       id |-> messageId, rating |-> rating]}
          /\ chatEv' = [NoChatEv EXCEPT !.op = "rate", !.id = messageId,
                                        !.rating = rating, !.stored = TRUE,
                                        !.called = TRUE]
          /\ UNCHANGED messages
     ELSE /\ messages' = SetRating(messages, messageId, rating)
          /\ chatEv' = [NoChatEv EXCEPT !.op = "rate", !.id = messageId,
                                        !.rating = rating, !.toastThanks = TRUE]
          /\ UNCHANGED <<queries, asked>>
  /\ UNCHANGED <<host, isLoading, now>>
  /\ UNCHANGED <<pollerVars, fnVars, docHookVars, topicVars, authVars, retryVars, laterVars>>

\* the rest of rateMessage once queryApi.rateResponse resolved to success
RateReply(q, success) ==
  /\ q.kind = "rate"
  /\ messages' = IF success THEN SetRating(messages, q.id, q.rating) ELSE messages
  /\ chatEv' = [NoChatEv EXCEPT !.op = "rateReply", !.id = q.id,
                                !.rating = q.rating, !.stored = TRUE,
                                !.failed = ~success, !.toastError = ~success]
  /\ queries' = queries \ {q}
  /\ UNCHANGED <<host, isLoading, asked, now>>
  /\ UNCHANGED <<pollerVars, fnVars, docHookVars, topicVars, authVars, retryVars, laterVars>>

\* useChat.regenerateResponse(messageId): the checks, the removal of the old
\* answer and sendMessage up to its await
RegenerateResponse(messageId) ==
  /\ host = "useChat"
  /\ asked < MaxQueries
  /\ LET i == FindIndex(messageId)
         found == i > 1 /\ messages[i - 1].type = "user"
         kept == Filter(messages, messageId)
         sends == found /\ ~isLoading
     IN /\ messages' = IF ~found THEN messages
                       ELSE IF sends THEN Append(kept, UserMessage(now))
                       ELSE kept
        /\ isLoading' = (isLoading \/ sends)
        /\ asked' = IF sends THEN asked + 1 ELSE asked
        /\ queries' = IF sends
                      THEN queries \cup {[n |-> asked + 1, kind |-> "query",
                                          id |-> 0, rating |-> 0]}
                      ELSE queries
        /\ chatEv' = [NoChatEv EXCEPT !.op = "regenerate", !.id = messageId,
                                      !.toastError = ~found,
                                      !.appended = IF sends THEN <<UserMessage(now)>>
                                                   ELSE << >>]
  /\ UNCHANGED <<host, now>>
  /\ UNCHANGED <<pollerVars, fnVars, docHookVars, topicVars, authVars, retryVars, laterVars>>

ChatNext ==
  \/ ClockTick
  \/ Submit
  \/ \E q \in queries, resp \in ChatResponses : QueryReply(q, resp)
  \/ \E q \in queries : QueryFailed(q)
  \/ QuickActionRefused
  \/ QuickAction
  \/ \E q \in queries, resp \in ChatResponses : QuickReply(q, resp)
  \/ \E q \in queries : QuickFailed(q)
  \/ ClearMessages
  \/ \E id \in Ids : RemoveMessage(id)
  \/ \E id \in Ids, rating \in Ratings : RateMessage(id, rating)
  \/ \E q \in queries, success \in BOOLEAN : RateReply(q, success)
  \/ \E id \in Ids : RegenerateResponse(id)

\* ------------------------------------------------ the useDocuments hook
MaxCalls == 2       \* requests the hook issues in one behaviour

HookStatuses == {"uploaded", "processing", "processed", "error"}

NoHookEv == [op |-> "none", id |-> 0, requested |-> 0, issued |-> FALSE,
             returned |-> "none", success |-> 0, failed |-> 0,
             toast |-> "none", file |-> [size |-> 0, name |-> << >>],
             delivered |-> << >>, was |-> {}]

notDocHook == <<pollerVars, fnVars, chatVars, topicVars, authVars, retryVars, laterVars>>

\* The identifiers of the documents the hook's backend holds.
HookIds == {1, 2}

\* The lists GET /documents answers with.
ServerLists ==
  {<< >>, <<[id |-> 1, status |-> "uploaded"]>>,
   <<[id |-> 1, status |-> "uploaded"], [id |-> 2, status |-> "uploaded"]>>,
   <<[id |-> 1, status |-> "processed"], [id |-> 2, status |-> "uploaded"]>>}

\* A status update that reaches every document.
SetStatusAll(docs, id, status) ==
  [i \in 1..Len(docs) |-> [docs[i] EXCEPT !.status = status]]

\* prev.map(doc => doc.id === id ? { ...doc, status } : doc)
SetStatus(docs, id, status) ==
  [i \in 1..Len(docs) |-> IF docs[i].id = id THEN [docs[i] EXCEPT !.status = status]
                          ELSE docs[i]]

\* A failure handler that puts the document back to 'uploaded'.
RevertStatusUploaded(docs, id) == SetStatus(docs, id, "uploaded")

\* "Revert status on error": the catch block of processDocument and
\* reprocessDocument
RevertStatus(docs, id) == SetStatus(docs, id, "error")

RECURSIVE Without(_, _)
\* prev.filter(doc => !ids.includes(doc.id))
Without(docs, ids) ==
  IF docs = << >> THEN << >>
  ELSE IF Head(docs).id \in Range(ids) THEN Without(Tail(docs), ids)
       ELSE <<Head(docs)>> \o Without(Tail(docs), ids)

\* The statuses the entries of identifier id carry in a collection.
StatusesOf(docs, id) == {docs[i].status : i \in {j \in 1..Len(docs) : docs[j].id = id}}

\* A request of the hook, with the status the targeted document had when the
\* operation was called.
HookCall(kind, id, ids) ==
  [n |-> hookAsked + 1, kind |-> kind, id |-> id, ids |-> ids,
   was |-> StatusesOf(hookDocuments, id)]

\* refreshDocuments up to its await (also the mount effect)
RefreshDocuments ==
  /\ hookAsked < MaxCalls
  /\ hookIsLoading' = TRUE
  /\ hookError' = FALSE
  /\ hookAsked' = hookAsked + 1
  /\ hookCalls' = hookCalls \cup {HookCall("refresh", 0, << >>)}
  /\ hookEv' = [NoHookEv EXCEPT !.op = "refresh", !.issued = TRUE]
  /\ UNCHANGED hookDocuments
  /\ UNCHANGED notDocHook

\* the rest of refreshDocuments, and of the processDocument or
\* reprocessDocument awaiting it (kind "refreshAfter"): the server's list on
\* success, nothing but the error otherwise
RefreshReply(q, ok, list) ==
  /\ q.kind \in {"refresh", "refreshAfter"}
  /\ hookDocuments' = IF ok THEN list ELSE hookDocuments
  /\ hookError' = IF ok THEN hookError ELSE TRUE
  /\ hookIsLoading' = FALSE
  /\ hookCalls' = hookCalls \ {q}
  /\ hookEv' = IF q.kind = "refreshAfter"
               THEN [NoHookEv EXCEPT !.op = "processed", !.id = q.id,
                                     !.returned = "true", !.toast = "success",
                                     !.delivered = IF ok THEN list ELSE << >>]
               ELSE [NoHookEv EXCEPT !.op = "refreshed",
                                     !.delivered = IF ok THEN list ELSE << >>]
  /\ UNCHANGED hookAsked
  /\ UNCHANGED notDocHook

\* processDocument(id) / reprocessDocument(id) up to their await
HookProcessDocument(kind, id) ==
  /\ kind \in {"process", "reprocess"}
  /\ hookAsked < MaxCalls
  /\ hookDocuments' = SetStatus(hookDocuments, id, "processing")
  /\ hookAsked' = hookAsked + 1
  /\ hookCalls' = hookCalls \cup {HookCall(kind, id, << >>)}
  /\ hookEv' = [NoHookEv EXCEPT !.op = kind, !.id = id, !.issued = TRUE]
  /\ UNCHANGED <<hookIsLoading, hookError>>
  /\ UNCHANGED notDocHook

\* ... once documentApi.reprocessDocument(id) resolved with success (ok) or
\* with success:false or rejected (~ok): refreshDocuments is started and
\* awaited, or the status is set to 'error'
HookProcessReply(q, ok) ==
  /\ q.kind \in {"process", "reprocess"}
  /\ IF ok
     THEN /\ hookIsLoading' = TRUE
          /\ hookError' = FALSE
          /\ hookCalls' = (hookCalls \ {q}) \cup {[q EXCEPT !.kind = "refreshAfter"]}
          /\ hookEv' = [NoHookEv EXCEPT !.op = "accepted", !.id = q.id, !.issued = TRUE]
          /\ UNCHANGED hookDocuments
     ELSE /\ hookDocuments' = RevertStatus(hookDocuments, q.id)
          /\ hookCalls' = hookCalls \ {q}
          /\ hookEv' = [NoHookEv EXCEPT !.op = "processFailed", !.id = q.id,
                                        !.returned = "false", !.toast = "error",
                                        !.was = q.was]
          /\ UNCHANGED <<hookIsLoading, hookError>>
  /\ UNCHANGED hookAsked
  /\ UNCHANGED notDocHook

\* The identifier lists handed to batchDeleteDocuments.
IdLists == {<< >>, <<1>>, <<1, 2>>, <<2, 2>>}

\* batchDeleteDocuments(ids) up to its await, or to its end for an empty list
BatchDeleteDocuments(ids) ==
  /\ IF Len(ids) = 0
     THEN /\ hookEv' = [NoHookEv EXCEPT !.op = "batchDone", !.returned = "counts",
                                        !.toast = "error"]
          /\ UNCHANGED <<hookCalls, hookAsked>>
     ELSE /\ hookAsked < MaxCalls
          /\ hookAsked' = hookAsked + 1
          /\ hookCalls' = hookCalls \cup {HookCall("batch", 0, ids)}
          /\ hookEv' = [NoHookEv EXCEPT !.op = "batch", !.requested = Len(ids),
                                        !.issued = TRUE]
  /\ UNCHANGED <<hookDocuments, hookIsLoading, hookError>>
  /\ UNCHANGED notDocHook

\* What POST /documents/batch-delete can answer: success with a summary of
\* deletions that succeeded and failed (a document can also be not_found),
\* success without a summary, success:false, or a request error.
BatchOutcomes(n) ==
  {[kind |-> "summary", successful_deletions |-> a, failed_deletions |-> b] :
     a \in 0..n, b \in 0..n} \cup
  {[kind |-> k, successful_deletions |-> 0, failed_deletions |-> 0] :
     k \in {"plain", "refused", "error"}}

\* the rest of batchDeleteDocuments
BatchReply(q, out) ==
  /\ q.kind = "batch"
  /\ out \in BatchOutcomes(Len(q.ids))
  /\ out.kind = "summary" => out.successful_deletions + out.failed_deletions <= Len(q.ids)
  /\ hookDocuments' = IF out.kind \in {"summary", "plain"}
                      THEN Without(hookDocuments, q.ids) ELSE hookDocuments
  /\ hookCalls' = hookCalls \ {q}
  /\ hookEv' = [NoHookEv EXCEPT
                  !.op = "batchDone", !.requested = Len(q.ids), !.returned = "counts",
                  !.success = CASE out.kind = "summary" -> out.successful_deletions
                                [] out.kind = "plain" -> Len(q.ids)
                                [] OTHER -> 0,
                  !.failed = CASE out.kind = "summary" -> out.failed_deletions
                               [] out.kind = "plain" -> 0
                               [] OTHER -> Len(q.ids),
                  !.toast = IF out.kind \in {"summary", "plain"} THEN "success"
                            ELSE "error"]
  /\ UNCHANGED <<hookIsLoading, hookError, hookAsked>>
  /\ UNCHANGED notDocHook

\* deleteDocument up to its await, or to its end when the rendered list has
\* no such document
HookDeleteDocument(id) ==
  /\ IF \A i \in 1..Len(hookDocuments) : hookDocuments[i].id # id
     THEN /\ hookEv' = [NoHookEv EXCEPT !.op = "deleteNotFound", !.id = id,
                                        !.returned = "false", !.toast = "error"]
          /\ UNCHANGED <<hookCalls, hookAsked>>
     ELSE /\ hookAsked < MaxCalls
          /\ hookAsked' = hookAsked + 1
          /\ hookCalls' = hookCalls \cup {HookCall("delete", id, << >>)}
          /\ hookEv' = [NoHookEv EXCEPT !.op = "delete", !.id = id, !.issued = TRUE]
  /\ UNCHANGED <<hookDocuments, hookIsLoading, hookError>>
  /\ UNCHANGED notDocHook

\* A failed delete that drops the document from the list all the same.
KeepOnFailureDropped(docs, id) == Without(docs, <<id>>)

\* catch block of deleteDocument: the list is not touched
KeepOnFailure(docs, id) == docs

\* the rest of deleteDocument
DeleteReply(q, ok) ==
  /\ q.kind = "delete"
  /\ hookDocuments' = IF ok THEN Without(hookDocuments, <<q.id>>)
                      ELSE KeepOnFailure(hookDocuments, q.id)
  /\ hookCalls' = hookCalls \ {q}
  /\ hookEv' = [NoHookEv EXCEPT !.op = IF ok THEN "deleted" ELSE "deleteFailed",
                                !.id = q.id,
                                !.returned = IF ok THEN "true" ELSE "false",
                                !.toast = IF ok THEN "success" ELSE "error"]
  /\ UNCHANGED <<hookIsLoading, hookError, hookAsked>>
  /\ UNCHANGED notDocHook

\* uploadDocument: const maxSize = 50 * 1024 * 1024
maxSize == 50 * 1024 * 1024
allowedTypes == {<<"p", "d", "f">>, <<"d", "o", "c", "x">>, <<"t", "x", "t">>,
                 <<"p", "p", "t", "x">>}

\* file.name.split('.').pop(): what follows the last dot, the whole name when
\* there is no dot
RECURSIVE LastSegment(_)
LastSegment(name) ==
  IF \A i \in 1..Len(name) : name[i] # "." THEN name
  ELSE LastSegment(Tail(name))

ToLowerCase(str) == [i \in 1..Len(str) |-> Lower(str[i])]

\* A validation that lets every file name through.
TypeAllowedAny(name) == TRUE

\* fileExtension && allowedTypes.includes(fileExtension)
TypeAllowed(name) ==
  LET fileExtension == ToLowerCase(LastSegment(name))
  IN fileExtension # << >> /\ fileExtension \in allowedTypes

\* The files of the model: sizes around the limit, names with and without
\* a dot.
FileNames == {<<"a", ".", "p", "d", "f">>, <<"a", ".", "P", "D", "F">>,
              <<"a", ".", "e", "x", "e">>, <<"p", "d", "f">>, <<"a", ".">>,
              <<"a", ".", "b", ".", "t", "x", "t">>, <<".", "d", "o", "c", "x">>,
              <<"a", ".", "p", "p", "t", "x">>, << >>}
Files == [size : {maxSize, maxSize + 1}, name : FileNames]

\* uploadDocument(file) up to its await, or to its end for a rejected file
\* The identifiers of a list, in its order.
IdsOf(docs) == [i \in 1..Len(docs) |-> docs[i].id]

UploadDocument(file) ==
  /\ IF file.size > maxSize \/ ~TypeAllowed(file.name)
     THEN /\ hookEv' = [NoHookEv EXCEPT !.op = "uploadRejected", !.file = file,
                                        !.returned = "null",
                                        !.toast = IF file.size > maxSize THEN "size"
                                                  ELSE "type"]
          /\ UNCHANGED <<hookIsLoading, hookCalls, hookAsked>>
     ELSE /\ hookAsked < MaxCalls
          /\ hookIsLoading' = TRUE
          /\ hookAsked' = hookAsked + 1
          /\ hookCalls' = hookCalls \cup {HookCall("upload", 0, IdsOf(hookDocuments))}
          /\ hookEv' = [NoHookEv EXCEPT !.op = "upload", !.file = file, !.issued = TRUE]
  /\ UNCHANGED <<hookDocuments, hookError>>
  /\ UNCHANGED notDocHook

\* the rest of uploadDocument: the new document d is put first, or the error
\* is shown.  The backend gives the new document an identifier that no
\* document listed when the upload was called (q.ids) carries.
UploadReply(q, ok, d) ==
  /\ q.kind = "upload"
  /\ d \notin Range(q.ids)
  /\ hookDocuments' = IF ok THEN <<[id |-> d, status |-> "uploaded"]>> \o hookDocuments
                      ELSE hookDocuments
  /\ hookIsLoading' = FALSE
  /\ hookCalls' = hookCalls \ {q}
  /\ hookEv' = [NoHookEv EXCEPT !.op = "uploaded", !.id = d,
                                !.returned = IF ok THEN "document" ELSE "null",
                                !.toast = IF ok THEN "success" ELSE "error",
                                !.delivered = IF ok THEN <<[id |-> d, status |-> "uploaded"]>>
                                              ELSE << >>]
  /\ UNCHANGED <<hookError, hookAsked>>
  /\ UNCHANGED notDocHook

DocHookNext ==
  \/ RefreshDocuments
  \/ \E q \in hookCalls, ok \in BOOLEAN, list \in ServerLists : RefreshReply(q, ok, list)
  \/ \E file \in Files : UploadDocument(file)
  \/ \E q \in hookCalls, ok \in BOOLEAN, d \in HookIds : UploadReply(q, ok, d)
  \/ \E kind \in {"process", "reprocess"}, id \in HookIds : HookProcessDocument(kind, id)
  \/ \E q \in hookCalls, ok \in BOOLEAN : HookProcessReply(q, ok)
  \/ \E ids \in IdLists : BatchDeleteDocuments(ids)
  \/ \E q \in hookCalls : \E out \in BatchOutcomes(Len(q.ids)) : BatchReply(q, out)

\* -------------------------------------- TopicManager and the useTopics hook
MaxTopicCalls == 3  \* topic requests issued in one behaviour

\* Topic collections, by the names of their topics.
Collections == {<< >>, <<"t1">>, <<"t1", "t2">>}

\* What is typed into the search box or handed to searchTopics.
Queries == {<< >>, <<" ">>, <<" ", "\n">>, <<"a">>, <<" ", "a", " ">>}

Operations == {"topics", "search"}

NoTopicEv == [op |-> "none", query |-> << >>, listing |-> FALSE, search |-> FALSE,
              returned |-> << >>, toast |-> "none", n |-> 0, kind |-> "none",
              applied |-> FALSE]

notTopics == <<pollerVars, fnVars, chatVars, docHookVars, authVars, retryVars, laterVars>>

\* getAbortController(operation): the controller of the operation's earlier
\* request, if the ref still holds one, is aborted; a new one takes its place
Aborted(reqs, operation) ==
  {IF q.by = "TopicManager" /\ q.n = abortControllers[operation]
   THEN [q EXCEPT !.aborted = TRUE] ELSE q : q \in reqs}

TopicRequest(by, kind) ==
  [n |-> topicAsked + 1, by |-> by, kind |-> kind, aborted |-> FALSE, topic |-> ""]

\* A blank test that does not trim.
IsBlankUntrimmed(query) == query = << >>

\* !query.trim()
IsBlank(query) == Trim(query) = << >>

\* onChange of the search box
SetSearchQuery(query) ==
  /\ tmMounted
  /\ searchQuery # query
  /\ searchQuery' = query
  /\ topicEv' = [NoTopicEv EXCEPT !.op = "type", !.query = query]
  /\ UNCHANGED <<tmMounted, tmTopics, abortControllers, hookTopics, topicRequests,
                 topicAsked>>
  /\ UNCHANGED notTopics

\* TopicManager.loadTopics up to its await, as initializeData and handleSearch
\* call it
LoadTopicsRequests ==
  Aborted(topicRequests, "topics") \cup {TopicRequest("TopicManager", "topics")}

\* initializeData (the effect on page and category), as far as topics go
InitializeData ==
  /\ tmMounted
  /\ topicAsked < MaxTopicCalls
  /\ topicRequests' = LoadTopicsRequests
  /\ abortControllers' = [abortControllers EXCEPT !["topics"] = topicAsked + 1]
  /\ topicAsked' = topicAsked + 1
  /\ topicEv' = [NoTopicEv EXCEPT !.op = "initialize", !.listing = TRUE]
  /\ UNCHANGED <<tmMounted, tmTopics, searchQuery, hookTopics>>
  /\ UNCHANGED notTopics

\* TopicManager.handleSearch up to its await: loadTopics() for a blank query,
\* the search request otherwise
HandleSearch ==
  /\ tmMounted
  /\ topicAsked < MaxTopicCalls
  /\ LET blank == IsBlank(searchQuery)
         operation == IF blank THEN "topics" ELSE "search"
     IN /\ topicRequests' = IF blank THEN LoadTopicsRequests
                            ELSE Aborted(topicRequests, "search") \cup
                                 {TopicRequest("TopicManager", "search")}
        /\ abortControllers' = [abortControllers EXCEPT ![operation] = topicAsked + 1]
        /\ topicEv' = [NoTopicEv EXCEPT !.op = "handleSearch", !.query = searchQuery,
                                        !.listing = blank, !.search = ~blank]
  /\ topicAsked' = topicAsked + 1
  /\ UNCHANGED <<tmMounted, tmTopics, searchQuery, hookTopics>>
  /\ UNCHANGED notTopics

\* the rest of loadTopics or handleSearch: nothing for a cancelled request or
\* an unmounted component, else the topics on success; the finally block
\* deletes the operation's controller
TopicManagerReply(q, ok, topics) ==
  /\ q.by = "TopicManager"
  /\ tmTopics' = IF tmMounted /\ ~q.aborted /\ ok THEN topics ELSE tmTopics
  /\ abortControllers' = [abortControllers EXCEPT ![q.kind] = 0]
  /\ topicRequests' = topicRequests \ {q}
  /\ topicEv' = [NoTopicEv EXCEPT !.op = "reply", !.n = q.n, !.kind = q.kind,
                                  !.applied = (tmMounted /\ ~q.aborted /\ ok)]
  /\ UNCHANGED <<tmMounted, searchQuery, hookTopics, topicAsked>>
  /\ UNCHANGED notTopics

\* the unmount cleanup: mountedRef.current = false; cancelAllRequests()
TopicManagerUnmount ==
  /\ tmMounted
  /\ tmMounted' = FALSE
  /\ topicRequests' = {IF q.by = "TopicManager" /\ q.n \in Range(abortControllers)
                       THEN [q EXCEPT !.aborted = TRUE] ELSE q : q \in topicRequests}
  /\ abortControllers' = [operation \in Operations |-> 0]
  /\ topicEv' = [NoTopicEv EXCEPT !.op = "unmount"]
  /\ UNCHANGED <<tmTopics, searchQuery, hookTopics, topicAsked>>
  /\ UNCHANGED notTopics

\* useTopics.refreshTopics up to its await
RefreshTopics ==
  /\ topicAsked < MaxTopicCalls
  /\ topicRequests' = topicRequests \cup {TopicRequest("useTopics", "topics")}
  /\ topicAsked' = topicAsked + 1
  /\ topicEv' = [NoTopicEv EXCEPT !.op = "refreshTopics", !.listing = TRUE]
  /\ UNCHANGED <<tmMounted, tmTopics, searchQuery, abortControllers, hookTopics>>
  /\ UNCHANGED notTopics

\* useTopics.searchTopics(query) up to its await, or to its end for a blank
\* query
SearchTopics(query) ==
  /\ IF IsBlank(query)
     THEN /\ topicEv' = [NoTopicEv EXCEPT !.op = "searchTopics", !.query = query,
                                          !.returned = hookTopics]
          /\ UNCHANGED <<topicRequests, topicAsked>>
     ELSE /\ topicAsked < MaxTopicCalls
          /\ topicRequests' = topicRequests \cup {TopicRequest("useTopics", "search")}
          /\ topicAsked' = topicAsked + 1
          /\ topicEv' = [NoTopicEv EXCEPT !.op = "searchTopics", !.query = query,
                                          !.search = TRUE]
  /\ UNCHANGED <<tmMounted, tmTopics, searchQuery, abortControllers, hookTopics>>
  /\ UNCHANGED notTopics

\* the rest of refreshTopics (the topics are stored) or of searchTopics (they
\* are returned, [] on failure)
UseTopicsReply(q, ok, topics) ==
  /\ q.by = "useTopics"
  /\ q.kind \in {"topics", "search"}
  /\ hookTopics' = IF q.kind = "topics" /\ ok THEN topics ELSE hookTopics
  /\ topicRequests' = topicRequests \ {q}
  /\ topicEv' = [NoTopicEv EXCEPT !.op = "hookReply",
                                  !.returned = IF q.kind = "search" /\ ok THEN topics
                                               ELSE << >>]
  /\ UNCHANGED <<tmMounted, tmTopics, searchQuery, abortControllers, topicAsked>>
  /\ UNCHANGED notTopics

RECURSIVE WithoutTopic(_, _)
\* prev.filter(topic => topic.id !== id)
WithoutTopic(topics, id) ==
  IF topics = << >> THEN << >>
  ELSE IF Head(topics) = id THEN WithoutTopic(Tail(topics), id)
       ELSE <<Head(topics)>> \o WithoutTopic(Tail(topics), id)

\* useTopics.deleteTopic up to its await, or to its end when the rendered
\* list has no such topic
DeleteTopic(id) ==
  /\ IF id \notin Range(hookTopics)
     THEN /\ topicEv' = [NoTopicEv EXCEPT !.op = "deleteTopicNotFound", !.toast = "error"]
          /\ UNCHANGED <<topicRequests, topicAsked>>
     ELSE /\ topicAsked < MaxTopicCalls
          /\ topicRequests' = topicRequests \cup
               {[TopicRequest("useTopics", "delete") EXCEPT !.topic = id]}
          /\ topicAsked' = topicAsked + 1
          /\ topicEv' = [NoTopicEv EXCEPT !.op = "deleteTopic"]
  /\ UNCHANGED <<tmMounted, tmTopics, searchQuery, abortControllers, hookTopics>>
  /\ UNCHANGED notTopics

\* the rest of deleteTopic
DeleteTopicReply(q, ok) ==
  /\ q.by = "useTopics"
  /\ q.kind = "delete"
  /\ hookTopics' = IF ok THEN WithoutTopic(hookTopics, q.topic) ELSE hookTopics
  /\ topicRequests' = topicRequests \ {q}
  /\ topicEv' = [NoTopicEv EXCEPT !.op = IF ok THEN "topicDeleted" ELSE "deleteTopicFailed",
                                  !.toast = IF ok THEN "success" ELSE "error"]
  /\ UNCHANGED <<tmMounted, tmTopics, searchQuery, abortControllers, topicAsked>>
  /\ UNCHANGED notTopics

\* The operations of the two hooks that change a collection on the backend.
MutateNext ==
  \/ \E id \in HookIds : HookProcessDocument("process", id)
  \/ \E q \in hookCalls, ok \in BOOLEAN : HookProcessReply(q, ok)
  \/ \E q \in hookCalls, ok \in BOOLEAN, list \in ServerLists : RefreshReply(q, ok, list)
  \/ \E id \in HookIds : HookDeleteDocument(id)
  \/ \E q \in hookCalls, ok \in BOOLEAN : DeleteReply(q, ok)
  \/ \E ids \in {<<1>>, <<1, 2>>} : BatchDeleteDocuments(ids)
  \/ \E q \in hookCalls : \E out \in BatchOutcomes(Len(q.ids)) : BatchReply(q, out)
  \/ \E id \in {"t1", "t2"} : DeleteTopic(id)
  \/ \E q \in topicRequests, ok \in BOOLEAN : DeleteTopicReply(q, ok)

TopicNext ==
  \/ \E query \in Queries : SetSearchQuery(query)
  \/ InitializeData
  \/ HandleSearch
  \/ \E q \in topicRequests, topics \in Collections : TopicManagerReply(q, TRUE, topics)
  \/ \E q \in topicRequests : TopicManagerReply(q, FALSE, << >>)
  \/ TopicManagerUnmount
  \/ RefreshTopics
  \/ \E query \in Queries : SearchTopics(query)
  \/ \E q \in topicRequests, topics \in Collections : UseTopicsReply(q, TRUE, topics)
  \/ \E q \in topicRequests : UseTopicsReply(q, FALSE, << >>)

\* ------------------------------- the request gatekeeper and the auth routes
NoCookie == "none"

\* The values a rag_auth cookie of a request can carry.
CookieValues == {"true", "", "x"}

Unset == "unset"
Passwords == {"rag2025", "secret", "wrong"}

LoginPath == <<"/", "l", "o", "g", "i", "n">>
ExemptPrefixes == {<<"/", "a", "p", "i", "/">>, <<"/", "_", "n", "e", "x", "t">>,
                   <<"/", "f", "a", "v", "i", "c", "o", "n">>,
                   <<"/", "s", "t", "a", "t", "i", "c">>}

\* The paths requested in the model.
Paths == {<<"/">>, LoginPath, LoginPath \o <<"/">>, <<"/", "a", "p", "i">>,
          <<"/", "a", "p", "i", "/", "a", "u", "t", "h">>,
          <<"/", "_", "n", "e", "x", "t", "/", "d", "a", "t", "a">>,
          <<"/", "f", "a", "v", "i", "c", "o", "n", ".", "i", "c", "o">>,
          <<"/", "s", "t", "a", "t", "i", "c", "/", "a">>,
          <<"/", "s", "t", "a", "t", "s">>}

NoAuthEv == [op |-> "none", path |-> << >>, cookie |-> NoCookie, body |-> "none",
             outcome |-> "none", status |-> 0, setCookie |-> FALSE]

notAuth == <<pollerVars, fnVars, chatVars, docHookVars, topicVars, retryVars, laterVars>>

\* pathname.startsWith(prefix)
StartsWith(pathname, prefix) ==
  Len(pathname) >= Len(prefix) /\ SubSeq(pathname, 1, Len(prefix)) = prefix

\* middleware(request): NextResponse.next() or the redirect to /login
middleware(pathname, cookie) ==
  IF pathname = LoginPath \/ \E prefix \in ExemptPrefixes : StartsWith(pathname, prefix)
  THEN "next"
  ELSE IF cookie = NoCookie THEN "redirect" ELSE "next"

\* const correctPassword = process.env.RAG_PASSWORD || 'rag2025'
correctPassword == IF ragPassword \in {Unset, ""} THEN "rag2025" ELSE ragPassword

\* The bodies of a POST /api/auth: not JSON (or JSON null), an object without
\* a password, an object with one.
Bodies == {"malformed", "empty"} \cup Passwords

\* POST /api/auth
AuthPost(body) ==
  /\ LET ok == body \in Passwords /\ body = correctPassword
     IN /\ cookieJar' = IF ok THEN "true" ELSE cookieJar
        /\ authenticated' = (authenticated \/ ok)
        /\ authEv' = [NoAuthEv EXCEPT
                        !.op = "auth", !.body = body, !.setCookie = ok,
                        !.status = IF body = "malformed" THEN 500
                                   ELSE IF ok THEN 200 ELSE 401]
  /\ UNCHANGED ragPassword
  /\ UNCHANGED notAuth

\* POST /api/logout
LogoutPost ==
  /\ cookieJar' = NoCookie
  /\ authenticated' = FALSE
  /\ authEv' = [NoAuthEv EXCEPT !.op = "logout", !.status = 200, !.setCookie = TRUE]
  /\ UNCHANGED ragPassword
  /\ UNCHANGED notAuth

\* maxAge: 86400 has passed
CookieExpires ==
  /\ cookieJar # NoCookie
  /\ cookieJar' = NoCookie
  /\ authEv' = [NoAuthEv EXCEPT !.op = "expire"]
  /\ UNCHANGED <<ragPassword, authenticated>>
  /\ UNCHANGED notAuth

\* A page request of the browser: it carries the stored cookie.
BrowserRequest(pathname) ==
  /\ authEv' = [NoAuthEv EXCEPT !.op = "page", !.path = pathname, !.cookie = cookieJar,
                                !.outcome = middleware(pathname, cookieJar)]
  /\ UNCHANGED <<ragPassword, cookieJar, authenticated>>
  /\ UNCHANGED notAuth

\* A page request with a Cookie header written by the client itself.
CraftedRequest(pathname, cookie) ==
  /\ authEv' = [NoAuthEv EXCEPT !.op = "page", !.path = pathname, !.cookie = cookie,
                                !.outcome = middleware(pathname, cookie)]
  /\ UNCHANGED <<ragPassword, cookieJar, authenticated>>
  /\ UNCHANGED notAuth

AuthNext ==
  \/ \E body \in Bodies : AuthPost(body)
  \/ LogoutPost
  \/ CookieExpires
  \/ \E pathname \in Paths : BrowserRequest(pathname)
  \/ \E pathname \in Paths, cookie \in CookieValues : CraftedRequest(pathname, cookie)

\* --------------------------------------------------- apiUtils.retryApiCall
MaxRetry == 3       \* the largest maxRetries argument (its default)

\* A rejection of apiCall: error.response?.status (0: no response) and
\* whether error.request is set.  Without both it is no HTTP failure at all
\* (a cancelled request, an exception of an interceptor).
Errors ==
  {[status |-> st, request |-> TRUE] : st \in {304, 400, 404, 499, 500, 503}} \cup
  {[status |-> 0, request |-> TRUE], [status |-> 0, request |-> FALSE]}

NoError == [status |-> -1, request |-> FALSE]

Running == [state |-> "running", error |-> NoError]

notRetry == <<pollerVars, fnVars, chatVars, docHookVars, topicVars, authVars, laterVars>>

\* status && status >= 400 && status < 500
IsClientError(error) ==
  error.status # 0 /\ error.status >= 400 /\ error.status < 500

\* one pass of the loop whose apiCall resolves
ApiCallResolves ==
  /\ outcome = Running
  /\ attempt <= maxRetries
  /\ calls' = calls + 1
  /\ outcome' = [state |-> "returned", error |-> NoError]
  /\ UNCHANGED <<maxRetries, attempt, lastError>>
  /\ UNCHANGED notRetry

\* one pass of the loop whose apiCall rejects with error: rethrown on the last
\* attempt and on a client error, else the next attempt after the delay
ApiCallRejects(error) ==
  /\ outcome = Running
  /\ attempt <= maxRetries
  /\ calls' = calls + 1
  /\ lastError' = error
  /\ IF attempt = maxRetries \/ IsClientError(error)
     THEN /\ outcome' = [state |-> "threw", error |-> error]
          /\ UNCHANGED attempt
     ELSE /\ attempt' = attempt + 1
          /\ UNCHANGED outcome
  /\ UNCHANGED maxRetries
  /\ UNCHANGED notRetry

\* the loop ended without a return or throw: throw lastError
LoopEnds ==
  /\ outcome = Running
  /\ attempt > maxRetries
  /\ outcome' = [state |-> "threw", error |-> lastError]
  /\ UNCHANGED <<maxRetries, attempt, lastError, calls>>
  /\ UNCHANGED notRetry

RetryNext ==
  \/ ApiCallResolves
  \/ \E error \in Errors : ApiCallRejects(error)
  \/ LoopEnds


\* ------------------------------------------------- hook operations' results
\* What a call of an exposed hook operation hands back to its caller, per
\* backend how.  "success" is a success:true response carrying its
\* payload, "successNoData" a success:true response without the optional
\* payload field, "refused" a success:false response, "rejected" a rejected
\* request.
Outcomes == {"rejected", "refused", "success", "successNoData"}

NoCall == [hook |-> "none", op |-> "none"]

Pending == [outcome |-> "pending", returned |-> "pending", threw |-> FALSE]

notOps == <<pollerVars, fnVars, chatVars, docHookVars, topicVars, authVars, retryVars,
           confirmVars, held>>

UseTopicsOps ==
  {"refreshTopics", "searchTopics", "getTopicDetails", "getTopicRelationships",
   "updateTopic", "deleteTopic", "mergeTopics", "findDuplicates",
   "autoDeduplicate", "cleanupEmpty", "getQualityMetrics", "getCategories",
   "findSimilar"}

UseDocumentsOps ==
  {"refreshDocuments", "uploadDocument", "processDocument", "reprocessDocument",
   "deleteDocument", "batchDeleteDocuments"}

UseAnalyticsOps ==
  {"refreshSystemHealth", "refreshAnalytics", "getQueryAnalytics",
   "getDocumentAnalytics", "getPerformanceMetrics", "getTrends", "getOverview"}

UseChatOps == {"sendMessage", "rateMessage", "regenerateResponse"}

\* `return response.data.data!`: the payload, undefined when it is missing.
Payload(how) == IF how = "success" THEN "data" ELSE "undefined"

Succeeded(how) == how \in {"success", "successNoData"}

\* try { ... return payload } catch { ...; return sentinel }
PayloadOr(how, sentinel) == IF Succeeded(how) THEN Payload(how) ELSE sentinel

\* try { ... return true } catch { ...; return false }
TrueOrFalse(how) == IF Succeeded(how) THEN "true" ELSE "false"

useTopicsReturn(op, how) ==
  CASE op = "refreshTopics" -> "undefined"
    [] op = "searchTopics" -> IF how = "success" THEN "list" ELSE "emptyList"
    [] op \in {"getTopicDetails", "getQualityMetrics"} -> PayloadOr(how, "null")
    [] op \in {"getTopicRelationships", "findDuplicates", "getCategories", "findSimilar"} ->
         PayloadOr(how, "zeroed")
    [] op = "autoDeduplicate" -> PayloadOr(how, "failed")
    [] op = "cleanupEmpty" -> IF how = "success" THEN "data" ELSE "zeroed"
    [] op \in {"updateTopic", "deleteTopic", "mergeTopics"} -> TrueOrFalse(how)

useDocumentsReturn(op, how) ==
  CASE op = "refreshDocuments" -> "undefined"
    [] op = "uploadDocument" -> PayloadOr(how, "null")
    [] op \in {"processDocument", "reprocessDocument", "deleteDocument"} -> TrueOrFalse(how)
    [] op = "batchDeleteDocuments" -> IF Succeeded(how) THEN "counts" ELSE "zeroed"

useAnalyticsReturn(op, how) ==
  CASE op \in {"refreshSystemHealth", "refreshAnalytics"} -> "undefined"
    [] OTHER -> PayloadOr(how, "null")

useChatReturn(op, how) ==
  CASE op = "rateMessage" -> "undefined"
    [] OTHER -> IF how = "success" THEN "message" ELSE "null"

HookOperations ==
  [hook : {"useTopics"}, op : UseTopicsOps] \cup [hook : {"useDocuments"}, op : UseDocumentsOps]
    \cup [hook : {"useAnalytics"}, op : UseAnalyticsOps] \cup [hook : {"useChat"}, op : UseChatOps]

HookReturn(c, how) ==
  CASE c.hook = "useTopics" -> useTopicsReturn(c.op, how)
    [] c.hook = "useDocuments" -> useDocumentsReturn(c.op, how)
    [] c.hook = "useAnalytics" -> useAnalyticsReturn(c.op, how)
    [] c.hook = "useChat" -> useChatReturn(c.op, how)

\* A component calls an operation; the request is issued.
CallOperation(c) ==
  /\ opCall = NoCall
  /\ opCall' = c
  /\ opResult' = Pending
  /\ UNCHANGED notOps

\* The backend answers and the operation's promise settles.  Every
\* operation body is one try/catch whose catch block only reads the caught
\* Error, so the promise is never rejected.
OperationSettles(how) ==
  /\ opCall # NoCall
  /\ opResult = Pending
  /\ opResult' = [outcome |-> how, returned |-> HookReturn(opCall, how), threw |-> FALSE]
  /\ UNCHANGED <<opCall, notOps>>

\* The caller has consumed the result.
OperationDone ==
  /\ opCall # NoCall
  /\ opResult # Pending
  /\ opCall' = NoCall
  /\ opResult' = Pending
  /\ UNCHANGED notOps

OpsNext ==
  \/ \E c \in HookOperations : CallOperation(c)
  \/ \E how \in Outcomes : OperationSettles(how)
  \/ OperationDone


\* ------------------------------------- DocumentUpload: destructive actions
NoPrompt == [action |-> "none", id |-> 0, answer |-> "none"]

notPoller == <<fnVars, chatVars, docHookVars, topicVars, authVars, retryVars, opVars, held>>

\* A guard that takes every reply of the prompt for a yes.
ConfirmedAlways(reply) == TRUE

\* if (!confirm(...)) return
Confirmed(reply) == reply = "yes"

pollerState == <<backend, documents, mounted, inst, processing, reprocessing,
                 processingTimers, loadingActions, pollingIntervals, intervals,
                 requests, refreshes, starts, ev>>

\* toggleDocumentSelection(documentId)
ToggleDocumentSelection(d) ==
  /\ mounted
  /\ documents[d] # NoDoc
  /\ selectedDocuments' = IF d \in selectedDocuments THEN selectedDocuments \ {d}
                          ELSE selectedDocuments \cup {d}
  /\ prompt' = NoPrompt
  /\ UNCHANGED <<deleteActions, deletes, deleteAsked, pollerState, notPoller>>

\* The Reprocess button: reprocessDocument(documentId) up to its await, or
\* to its return when the prompt is declined.
ReprocessClicked(d, reply) ==
  /\ mounted
  /\ Terminal(documents[d])
  /\ d \notin reprocessing
  /\ d \notin loadingActions
  /\ prompt' = [action |-> "reprocess", id |-> d, answer |-> reply]
  /\ IF Confirmed(reply)
     THEN starts + deleteAsked < MaxStarts /\ ReprocessStart(d)
     ELSE UNCHANGED pollerState
  /\ UNCHANGED <<selectedDocuments, deleteActions, deletes, deleteAsked, notPoller>>

\* The Delete button: deleteDocument(documentId) up to its await, or to its
\* return when the prompt is declined.
DeleteClicked(d, reply) ==
  /\ mounted
  /\ documents[d] # NoDoc
  /\ d \notin deleteActions
  /\ prompt' = [action |-> "delete", id |-> d, answer |-> reply]
  /\ IF Confirmed(reply)
     THEN /\ starts + deleteAsked < MaxStarts
          /\ deleteActions' = deleteActions \cup {d}
          /\ deletes' = deletes \cup {[n |-> deleteAsked + 1, kind |-> "delete", ids |-> {d}]}
          /\ deleteAsked' = deleteAsked + 1
     ELSE UNCHANGED <<deleteActions, deletes, deleteAsked>>
  /\ UNCHANGED <<selectedDocuments, pollerState, notPoller>>

\* The bulk Delete button (rendered while the selection is not empty):
\* bulkDeleteDocuments() up to its await, or to its return when the prompt is
\* declined.
BulkDeleteClicked(reply) ==
  /\ mounted
  /\ selectedDocuments # {}
  /\ 0 \notin deleteActions
  /\ prompt' = [action |-> "bulk", id |-> 0, answer |-> reply]
  /\ IF Confirmed(reply)
     THEN /\ starts + deleteAsked < MaxStarts
          /\ deleteActions' = deleteActions \cup {0}
          /\ deletes' = deletes \cup
               {[n |-> deleteAsked + 1, kind |-> "bulk", ids |-> selectedDocuments]}
          /\ deleteAsked' = deleteAsked + 1
     ELSE UNCHANGED <<deleteActions, deletes, deleteAsked>>
  /\ UNCHANGED <<selectedDocuments, pollerState, notPoller>>

\* The rest of deleteDocument (the request resolved: ok, or was rejected) and
\* of bulkDeleteDocuments (success: ok, success:false or rejected): the page
\* filters the deleted documents out, the monitor effect runs on the new
\* list, the loading key is removed.
DeleteSettles(q, ok) ==
  /\ q \in deletes
  /\ deletes' = deletes \ {q}
  /\ deleteActions' = IF mounted THEN deleteActions \ (IF q.kind = "bulk" THEN {0} ELSE q.ids)
                      ELSE deleteActions
  /\ selectedDocuments' = IF mounted /\ ok /\ q.kind = "bulk" THEN {} ELSE selectedDocuments
  /\ documents' = IF ok THEN [d \in Docs |-> IF d \in q.ids THEN NoDoc ELSE documents[d]]
                  ELSE documents
  /\ backend' = IF ok THEN [d \in Docs |-> IF d \in q.ids THEN NoDoc ELSE backend[d]]
                ELSE backend
  /\ LET c == AfterTask(Component, documents')
     IN /\ Commit(c)
        /\ Observe("deleted", 0, FALSE, mounted, NoDoc, c)
  /\ prompt' = NoPrompt
  /\ UNCHANGED <<mounted, inst, loadingActions, requests, refreshes, starts>>
  /\ UNCHANGED <<deleteAsked, notPoller>>

ConfirmNext ==
  \/ \E d \in Docs : ToggleDocumentSelection(d)
  \/ \E d \in Docs, reply \in {"yes", "no"} : ReprocessClicked(d, reply)
  \/ \E d \in Docs, reply \in {"yes", "no"} : DeleteClicked(d, reply)
  \/ \E reply \in {"yes", "no"} : BulkDeleteClicked(reply)
  \/ \E q \in deletes, ok \in BOOLEAN : DeleteSettles(q, ok)


\* ------------------------------------------- useChat: held callbacks
notChat == <<pollerVars, fnVars, docHookVars, topicVars, authVars, retryVars, opVars,
            confirmVars>>

\* A caller (an async handler, a timer) that took the sendMessage of the
\* first render calls it: the guard reads the isLoading of the render that
\* created the callback (useCallback(..., [isLoading])), which is false
\* whatever the state is now.
HeldSend ==
  /\ host = "useChat"
  /\ held
  /\ asked < MaxQueries
  /\ Len(messages) < MaxMessages
  /\ held' = FALSE
  /\ messages' = Append(messages, UserMessage(now))
  /\ isLoading' = TRUE
  /\ asked' = asked + 1
  /\ queries' = queries \cup {[n |-> asked + 1, kind |-> "query", id |-> 0, rating |-> 0]}
  /\ chatEv' = [NoChatEv EXCEPT !.op = "submit", !.appended = <<UserMessage(now)>>]
  /\ UNCHANGED <<host, now>>
  /\ UNCHANGED notChat

\* The answers of processQuery in the hook's runs: unusable, or an answer
\* text with a query id.
SendResponses ==
  {Undefined,
   Obj([data |-> Obj([success |-> Bool(TRUE), data |-> QueryData(<<"o", "k">>, 1, TRUE)])])}

\* Time passes while a query is in flight.
WaitTick == (\E q \in queries : q.kind = "query") /\ ClockTick

SendNext ==
  \/ WaitTick
  \/ Submit
  \/ \E q \in queries, resp \in SendResponses : QueryReply(q, resp)
  \/ \E q \in queries : QueryFailed(q)
  \/ ClearMessages
  \/ \E id \in Ids : RemoveMessage(id)
  \/ \E id \in Ids, rating \in Ratings : RateMessage(id, rating)
  \/ \E q \in queries, success \in BOOLEAN : RateReply(q, success)
  \/ \E id \in Ids : RegenerateResponse(id)
  \/ HeldSend

vars == <<pollerVars, fnVars, hookVars>>

FnIdle ==
  /\ response = Undefined
  /\ answer = NoAnswer
  /\ content = << >>
  /\ cleaned = [pass |-> 0, once |-> << >>, twice |-> << >>]

PollerIdle == PollerInit /\ backend = [d \in Docs |-> "uploaded"]

ChatIdle ==
  /\ host = "ChatInterface"
  /\ messages = << >>
  /\ isLoading = FALSE
  /\ queries = {}
  /\ asked = 0
  /\ now = 0
  /\ chatEv = NoChatEv

DocHookIdle ==
  /\ hookDocuments = << >>
  /\ hookIsLoading = FALSE
  /\ hookError = FALSE
  /\ hookCalls = {}
  /\ hookAsked = 0
  /\ hookEv = NoHookEv

TopicIdle ==
  /\ tmMounted = TRUE
  /\ tmTopics = << >>
  /\ searchQuery = << >>
  /\ abortControllers = [operation \in Operations |-> 0]
  /\ hookTopics = << >>
  /\ topicRequests = {}
  /\ topicAsked = 0
  /\ topicEv = NoTopicEv

AuthIdle ==
  /\ ragPassword = Unset
  /\ cookieJar = NoCookie
  /\ authenticated = FALSE
  /\ authEv = NoAuthEv

RetryIdle ==
  /\ maxRetries = 0
  /\ attempt = 0
  /\ lastError = NoError
  /\ calls = 0
  /\ outcome = Running

OpsIdle ==
  /\ opCall = NoCall
  /\ opResult = Pending

ConfirmIdle ==
  /\ selectedDocuments = {}
  /\ deleteActions = {}
  /\ deletes = {}
  /\ deleteAsked = 0
  /\ prompt = NoPrompt

LaterIdle == OpsIdle /\ ConfirmIdle /\ held = FALSE

HookIdle == ChatIdle /\ DocHookIdle /\ TopicIdle /\ AuthIdle /\ RetryIdle /\ LaterIdle

Init == PollerInit /\ FnIdle /\ HookIdle

Spec == Init /\ [][Next]_vars

\* The poller without the user leaving the tab, refreshing by hand or
\* reprocessing, and with a backend and a network that never fail; what is
\* pending happens: a response arrives, an active interval fires, the backend
\* finishes.
PollFairNext ==
  \/ Mount
  \/ \E d \in Docs : ProcessDocument(d)
  \/ \E req \in requests : BackendServe(req, TRUE)
  \/ \E d \in Docs : BackendFinish(d, "processed")
  \/ \E req \in requests : StartResponse(req)
  \/ \E t \in intervals : PollTick(t)
  \/ \E r \in refreshes : LoadDocuments(r)

PollFairness ==
  /\ WF_vars(\E req \in requests : BackendServe(req, TRUE))
  /\ WF_vars(\E d \in Docs : BackendFinish(d, "processed"))
  /\ WF_vars(\E req \in requests : StartResponse(req))
  /\ WF_vars(\E t \in intervals : PollTick(t))
  /\ WF_vars(\E r \in refreshes : LoadDocuments(r))

PollFairInit == PollerIdle /\ FnIdle /\ HookIdle

PollFairSpec == PollFairInit /\ [][PollFairNext]_vars /\ PollFairness

\* The normalizer and its callers on every response of the model.
NormInit ==
  /\ PollerIdle
  /\ HookIdle
  /\ response \in Responses
  /\ answer = NoAnswer
  /\ content = << >>
  /\ cleaned = [pass |-> 0, once |-> << >>, twice |-> << >>]

NormNext == HandleSubmitReply \/ SendMessageReply

NormSpec == NormInit /\ [][NormNext]_vars

\* The sanitizer on every content of the model, applied twice.
CleanInit ==
  /\ PollerIdle
  /\ HookIdle
  /\ response = Undefined
  /\ answer = NoAnswer
  /\ content \in Contents
  /\ cleaned = [pass |-> 0, once |-> << >>, twice |-> << >>]

CleanNext == Sanitize

CleanSpec == CleanInit /\ [][CleanNext]_vars

\* A chat list from its creation, under either owner.
ChatInit ==
  /\ PollerIdle
  /\ FnIdle
  /\ host \in Hosts
  /\ messages = << >>
  /\ isLoading = FALSE
  /\ queries = {}
  /\ asked = 0
  /\ now = 0
  /\ chatEv = NoChatEv
  /\ DocHookIdle
  /\ TopicIdle
  /\ AuthIdle
  /\ RetryIdle
  /\ LaterIdle

ChatSpec == ChatInit /\ [][ChatNext]_vars

\* The useDocuments hook from its creation.
DocHookInit == PollerIdle /\ FnIdle /\ HookIdle

DocHookSpec == DocHookInit /\ [][DocHookNext]_vars

\* TopicManager and useTopics from their creation.
TopicInit == PollerIdle /\ FnIdle /\ HookIdle

TopicSpec == TopicInit /\ [][TopicNext]_vars

\* One client and the server, for every setting of RAG_PASSWORD.
AuthInit ==
  /\ PollerIdle /\ FnIdle /\ ChatIdle /\ DocHookIdle /\ TopicIdle /\ RetryIdle /\ LaterIdle
  /\ ragPassword \in {Unset, "", "secret"}
  /\ cookieJar = NoCookie
  /\ authenticated = FALSE
  /\ authEv = NoAuthEv

AuthSpec == AuthInit /\ [][AuthNext]_vars

\* One call of retryApiCall for every maxRetries argument of the model.
RetryInit ==
  /\ PollerIdle /\ FnIdle /\ ChatIdle /\ DocHookIdle /\ TopicIdle /\ AuthIdle /\ LaterIdle
  /\ maxRetries \in -1..MaxRetry
  /\ attempt = 0
  /\ lastError = NoError
  /\ calls = 0
  /\ outcome = Running

RetrySpec == RetryInit /\ [][RetryNext]_vars

\* Both hooks after their mount refresh has delivered a collection.  A
\* behaviour issues the requests of one of the two hooks: the other hook's
\* request count starts at its cap.
MutateInit ==
  /\ PollerIdle /\ FnIdle /\ ChatIdle /\ AuthIdle /\ RetryIdle /\ LaterIdle
  /\ hookDocuments \in ServerLists
  /\ hookIsLoading = FALSE
  /\ hookError = FALSE
  /\ hookCalls = {}
  /\ hookEv = NoHookEv
  /\ tmMounted = FALSE
  /\ tmTopics = << >>
  /\ searchQuery = << >>
  /\ abortControllers = [operation \in Operations |-> 0]
  /\ hookTopics \in Collections
  /\ topicRequests = {}
  /\ topicEv = NoTopicEv
  /\ \/ hookAsked = 0 /\ topicAsked = MaxTopicCalls
     \/ hookAsked = MaxCalls /\ topicAsked = 0

MutateSpec == MutateInit /\ [][MutateNext]_vars

\* A mounted DocumentUpload after the page has loaded the documents, all of
\* them processed.
ConfirmInit ==
  /\ FnIdle /\ HookIdle
  /\ backend = [d \in Docs |-> "processed"]
  /\ documents = backend
  /\ mounted = TRUE
  /\ inst = 1
  /\ processing = {}
  /\ reprocessing = {}
  /\ processingTimers = {}
  /\ loadingActions = {}
  /\ pollingIntervals = [d \in Docs |-> 0]
  /\ intervals = {}
  /\ requests = {}
  /\ refreshes = {}
  /\ starts = 0
  /\ ev = NoEv

ConfirmSpec == ConfirmInit /\ [][ConfirmNext]_vars

\* The useChat hook from its creation, a caller holding the sendMessage of
\* the first render.
SendInit ==
  /\ PollerIdle /\ FnIdle /\ DocHookIdle /\ TopicIdle /\ AuthIdle /\ RetryIdle
  /\ OpsIdle /\ ConfirmIdle
  /\ held = TRUE
  /\ host = "useChat"
  /\ messages = << >>
  /\ isLoading = FALSE
  /\ queries = {}
  /\ asked = 0
  /\ now = 0
  /\ chatEv = NoChatEv

SendSpec == SendInit /\ [][SendNext]_vars

OpsInit == PollerIdle /\ FnIdle /\ HookIdle

OpsSpec == OpsInit /\ [][OpsNext]_vars

\* ----------------------------------------------------------------- claims
InFlight(d) == d \in processing \/ d \in reprocessing

\* startPolling ran for d in the mounted instance and d is still in flight.
PollStarted(d) == mounted /\ InFlight(d) /\ pollingIntervals[d] # 0

\* The completing step for d: no interval of d is left, d has left the in-flight
\* sets and the step emitted d's completion toast.
PollCompleted(d) ==
  /\ ~InFlight(d)
  /\ \A t \in intervals : t.id # d
  /\ \E n \in ev.toasts : n.id = d

\* C1: every document whose start request succeeded and whose backend status is
\* terminal eventually has its polling stopped, leaves the in-flight set and
\* gets its completion toast, unless the component is unmounted.
C1_PollingCompletes ==
  \A d \in Docs :
    (PollStarted(d) /\ Terminal(backend[d])) ~> (~mounted \/ PollCompleted(d))

\* C2: after stopPolling handled an identifier whose located document is
\* 'processed' or 'error', that identifier's interval is cancelled and absent
\* from the polling map, the identifier is absent from the in-flight set the
\* flag selects and from the elapsed-time map, and the toast was emitted.
C2_StopPollingCleansUp ==
  \A s \in ev.stops :
    (s.live /\ Terminal(s.found)) =>
      /\ \A t \in intervals : ~(t.id = s.id /\ t.inst = inst)
      /\ pollingIntervals[s.id] = 0
      /\ s.id \notin (IF s.isRe THEN reprocessing ELSE processing)
      /\ s.id \notin processingTimers
      /\ [id |-> s.id, isRe |-> s.isRe, kind |-> s.found] \in ev.toasts

\* C3: no interval fires more than once after a refresh delivered a terminal
\* status for its identifier, and none fires once its instance is unmounted.
C3_NoLateTick ==
  /\ ev.op = "tick" => ev.live
  /\ \A t \in intervals : t.late <= 1

\* C4: while the instance stays mounted and the document has not been seen
\* 'processed' or 'error', no step cancels the document's interval.
C4_TimerStaysActive ==
  [][\A t \in intervals :
       (/\ mounted /\ mounted' /\ t.inst = inst
        /\ ~Terminal(t.found)
        /\ ~Terminal(documents[t.id]) /\ ~Terminal(documents'[t.id]))
       => \E u \in intervals' : u.h = t.h]_vars

\* C5: at most one interval is active per document identifier.
C5_OneTimerPerDocument ==
  \A d \in Docs : Cardinality({t \in intervals : t.id = d}) <= 1

\* C6: the status a poll tick inspected is the status delivered by the refresh
\* that tick triggered.
C6_TickInspectsRefreshed ==
  (ev.op = "refresh" /\ ev.id # 0) => ev.inspected = documents[ev.id]

\* The three response shapes: (a) a success envelope holding data.data, (b) a
\* data envelope whose response field holds text, (c) an object whose own
\* response field holds text.
HasText(v) == v.t = "string" /\ v.s # << >>
ShapeA(r) ==
  /\ Get(Get(r, "data"), "success") = Bool(TRUE)
  /\ Get(Get(r, "data"), "data").t = "object"
ShapeB(r) == HasText(Get(Get(r, "data"), "response"))
ShapeC(r) == HasText(Get(r, "response"))

\* C7: the result is the object of the first shape, in the order (a), (b),
\* (c), that the input matches, and null when it matches none.
C7_FirstShapeWins ==
  answer # NoAnswer =>
    /\ ShapeA(response) => answer.queryData = Get(Get(response, "data"), "data")
    /\ (~ShapeA(response) /\ ShapeB(response)) =>
         answer.queryData = Get(response, "data")
    /\ (~ShapeA(response) /\ ~ShapeB(response) /\ ShapeC(response)) =>
         answer.queryData = response
    /\ (~ShapeA(response) /\ ~ShapeB(response) /\ ~ShapeC(response)) =>
         answer.queryData = Null

\* An input matching all three shapes was resolved to its data.data.
C7_Witness ==
  /\ answer # NoAnswer
  /\ ShapeA(response) /\ ShapeB(response) /\ ShapeC(response)
  /\ answer.queryData = Get(Get(response, "data"), "data")

\* C8 as stated: for an input of one of the three shapes the result's response
\* field is non-empty; for any other input the result is null and the caller
\* reports an error.
C8_NonEmptyResponse ==
  answer # NoAnswer =>
    IF ShapeA(response) \/ ShapeB(response) \/ ShapeC(response)
    THEN HasText(Get(answer.queryData, "response"))
    ELSE answer.queryData = Null /\ answer.error /\ answer.toastError

\* C8 amended: an input resolved as shape (b) or (c) yields an object whose
\* response field is non-empty; an input resolved as shape (a) yields data.data
\* whatever its response field holds, and when that is missing or empty the
\* caller reports an error; any other input yields null and the caller reports
\* an error.
C8_ResolvedResponse ==
  answer # NoAnswer =>
    /\ (~ShapeA(response) /\ (ShapeB(response) \/ ShapeC(response))) =>
         HasText(Get(answer.queryData, "response"))
    /\ (ShapeA(response) /\ ~HasText(Get(answer.queryData, "response"))) =>
         (answer.error /\ answer.toastError)
    /\ (~ShapeA(response) /\ ~ShapeB(response) /\ ~ShapeC(response)) =>
         (answer.queryData = Null /\ answer.error /\ answer.toastError)

\* A success envelope whose data.data carries no answer text reached a caller,
\* which reported the error.
C8_Witness ==
  /\ answer # NoAnswer
  /\ ShapeA(response)
  /\ ~HasText(Get(answer.queryData, "response"))
  /\ answer.error

\* s holds a <think>...</think> span.
HasThinkSpan(s) ==
  \E i \in 1..Len(s) :
    MatchAt(s, i, ThinkOpen) /\ Closings(s, i + Len(ThinkOpen)) # {}

\* s holds one of the four reasoning / final_answer tag tokens.
HasTagToken(s) ==
  \E i \in 1..Len(s), tag \in ReasoningTags \cup AnswerTags : MatchAt(s, i, tag)

\* C9: the sanitized string holds no <think>...</think> span, none of the
\* reasoning / final_answer tag tokens, and no surrounding whitespace.
C9_NoMarkupLeft ==
  cleaned.pass >= 1 =>
    /\ ~HasThinkSpan(cleaned.once)
    /\ ~HasTagToken(cleaned.once)
    /\ cleaned.once = Trim(cleaned.once)

\* C10: sanitizing the sanitized string changes nothing.
C10_Idempotent ==
  cleaned.pass = 2 => cleaned.twice = cleaned.once

\* C11: every assistant message whose content is backend text holds exactly
\* cleanResponseContent of that text, whichever handler appended it
\* (sendMessage, handleSubmit, handleQuickAction).
C11_BackendTextSanitized ==
  \A i \in 1..Len(messages) :
    messages[i].backend => messages[i].content = cleanResponseContent(messages[i].raw)

\* C12: a submission whose answer is unusable (no recognized shape, or empty
\* once sanitized) appends exactly one assistant message with the non-empty
\* generic error text and shows an error toast; no assistant message of the
\* list is ever empty; isLoading is false once the submission has finished.
C12_FailureSurfaced ==
  /\ (chatEv.op = "reply" /\ chatEv.failed) =>
       /\ Len(chatEv.appended) = 1
       /\ chatEv.appended[1].type = "assistant"
       /\ chatEv.appended[1].content = Apology
       /\ chatEv.appended[1].content # << >>
       /\ chatEv.toastError
  /\ \A i \in 1..Len(messages) :
       messages[i].type = "assistant" => messages[i].content # << >>
  /\ chatEv.op = "reply" => ~isLoading

\* An answer of a recognized shape whose text is empty once sanitized was
\* answered with the error bubble, after an earlier exchange.
C12_Witness ==
  /\ chatEv.op = "reply" /\ chatEv.failed /\ chatEv.resolved
  /\ Len(messages) >= 3
  /\ messages[Len(messages)] = ErrorMessage(now + 1, Apology)

\* C16: rateMessage for a message of the list that has no stored query id
\* does not call the rating endpoint, shows the thank-you toast and changes
\* the rating of that message only.
C16_RateWithoutQueryId ==
  [][(chatEv'.op = "rate" /\ FindIndex(chatEv'.id) # 0 /\ ~Stored(chatEv'.id)) =>
       /\ ~chatEv'.called
       /\ chatEv'.toastThanks
       /\ messages' = [messages EXCEPT ![FindIndex(chatEv'.id)].rating = chatEv'.rating]]_vars

\* C13: whatever the backend answers, the pair batchDeleteDocuments returns
\* has a success count and a failed count that sum to the number of
\* requested identifiers.
C13_BatchCountsSum ==
  hookEv.op = "batchDone" => hookEv.success + hookEv.failed = hookEv.requested

\* The extension of a file name: what follows its last dot, if it has a dot.
HasExtension(name) == \E i \in 1..Len(name) : name[i] = "."
ExtensionAllowed(name) ==
  HasExtension(name) /\ ToLowerCase(LastSegment(name)) \in allowedTypes

\* C15: uploadDocument issues a request only for a file of at most 50 MB
\* whose lower-cased extension is pdf, docx, txt or pptx; any other file gets
\* null and a toast citing the size limit or the allowed types, no request,
\* and documents and isLoading stay as they were.
C15_UploadValidated ==
  [][hookEv'.op \in {"upload", "uploadRejected"} =>
       LET file == hookEv'.file
           valid == file.size <= 50 * 1024 * 1024 /\ ExtensionAllowed(file.name)
       IN /\ hookEv'.issued => valid
          /\ ~valid => /\ ~hookEv'.issued
                       /\ hookEv'.returned = "null"
                       /\ hookEv'.toast \in {"size", "type"}
                       /\ hookCalls' = hookCalls
                       /\ hookDocuments' = hookDocuments
                       /\ hookIsLoading' = hookIsLoading]_vars

\* docs with the status of every document of identifier id set to status
\* and nothing else changed
OnlyStatusOf(before, after, id, status) ==
  /\ Len(after) = Len(before)
  /\ \A i \in 1..Len(before) :
       after[i] = IF before[i].id = id THEN [id |-> id, status |-> status]
                  ELSE before[i]

\* C20: processDocument and reprocessDocument of useDocuments mark the
\* targeted document 'processing' when they issue the request, and when the
\* request fails or answers success:false they mark it 'error' and return
\* false; no other document changes in either step.
C20_OptimisticStatus ==
  [][/\ hookEv'.op \in {"process", "reprocess"} =>
          /\ OnlyStatusOf(hookDocuments, hookDocuments', hookEv'.id, "processing")
          /\ \E q \in hookCalls' \ hookCalls : q.kind = hookEv'.op /\ q.id = hookEv'.id
     /\ hookEv'.op = "processFailed" =>
          /\ OnlyStatusOf(hookDocuments, hookDocuments', hookEv'.id, "error")
          /\ hookEv'.returned = "false"]_vars

\* A failed request marked its document 'error' next to a document that
\* is not.
C20_Witness ==
  /\ hookEv.op = "processFailed"
  /\ \E i, j \in 1..Len(hookDocuments) :
       /\ hookDocuments[i].id = hookEv.id /\ hookDocuments[i].status = "error"
       /\ hookDocuments[j].id # hookEv.id /\ hookDocuments[j].status = "uploaded"

\* C14: with an empty or whitespace-only query no search request is issued:
\* handleSearch requests the topic listing instead, and searchTopics returns
\* the hook's current collection.
C14_BlankQueryFallsBack ==
  [][/\ (topicEv'.op = "handleSearch" /\ Trim(topicEv'.query) = << >>) =>
          /\ \A q \in topicRequests' : q.kind = "search" => q.n <= topicAsked
          /\ \E q \in topicRequests' \ topicRequests :
               q.kind = "topics" /\ q.by = "TopicManager" /\ ~q.aborted
     /\ (topicEv'.op = "searchTopics" /\ Trim(topicEv'.query) = << >>) =>
          /\ topicRequests' = topicRequests
          /\ topicEv'.returned = hookTopics]_vars

\* searchTopics returned a loaded collection for a query of one blank while
\* the listing handleSearch asked for with a whitespace-only query is pending.
C14_Witness ==
  /\ topicEv.op = "searchTopics" /\ topicEv.query = <<" ">>
  /\ topicEv.returned = <<"t1", "t2">>
  /\ searchQuery = <<" ", "\n">>
  /\ \E q \in topicRequests : q.by = "TopicManager" /\ q.kind = "topics"

\* The paths the gatekeeper exempts: the login page, API routes and static
\* assets.
ExemptPath(pathname) ==
  \/ pathname = <<"/", "l", "o", "g", "i", "n">>
  \/ \E prefix \in {<<"/", "a", "p", "i", "/">>, <<"/", "_", "n", "e", "x", "t">>,
                    <<"/", "f", "a", "v", "i", "c", "o", "n">>,
                    <<"/", "s", "t", "a", "t", "i", "c">>} :
       StartsWith(pathname, prefix)

\* C17: an exempt path is always let through; any other request is
\* redirected to /login when it carries no rag_auth cookie and is let through
\* only when the client is authenticated.
C17_MiddlewareGate ==
  authEv.op = "page" =>
    IF ExemptPath(authEv.path) THEN authEv.outcome = "next"
    ELSE /\ authEv.cookie = NoCookie => authEv.outcome = "redirect"
         /\ authEv.outcome = "next" => authenticated

\* C18: over any sequence of requests of one client, only a POST with the
\* configured password sets the session cookie; a wrong password answers 401
\* and a malformed body 500, both leaving the cookie as it was; logout clears
\* it; a protected page is let through only if an authentication succeeded
\* since the last logout.
C18_SessionLifecycle ==
  [][/\ authEv'.op = "auth" =>
          /\ (cookieJar' # cookieJar \/ authEv'.setCookie) => authEv'.body = correctPassword
          /\ authEv'.body = "malformed" => authEv'.status = 500 /\ cookieJar' = cookieJar
          /\ authEv'.body \notin {"malformed", correctPassword} =>
               authEv'.status = 401 /\ cookieJar' = cookieJar
     /\ authEv'.op = "logout" => cookieJar' = NoCookie
     /\ authEv'.op = "page" => cookieJar' = cookieJar
     /\ (authEv'.op = "page" /\ ~ExemptPath(authEv'.path) /\ authEv'.outcome = "next") =>
          authenticated']_vars

\* A failure worth another attempt: a network error (no response, but a
\* request) or a 5xx status.
Retryable(error) ==
  \/ error.status = 0 /\ error.request
  \/ error.status >= 500 /\ error.status <= 599

\* C19: retryApiCall invokes the call at most maxRetries + 1 times; another
\* attempt follows only a network error or a 5xx failure; a 4xx failure and a
\* success end it, with that error thrown or that result returned; when all
\* attempts fail, the error of the last attempt is thrown.
C19_RetryPolicy ==
  [][/\ calls' <= maxRetries + 1
     /\ (calls' > calls /\ calls > 0) => Retryable(lastError)
     /\ (calls' > calls /\ lastError'.status >= 400 /\ lastError'.status <= 499) =>
          outcome' = [state |-> "threw", error |-> lastError']
     /\ outcome.state # "running" => calls' = calls
     /\ (outcome'.state = "threw" /\ calls' > 0) => outcome'.error = lastError']_vars

\* The status s of identifier id is part of what the backend just delivered.
Delivered(id, s) ==
  \E i \in 1..Len(hookEv'.delivered) :
    hookEv'.delivered[i].id = id /\ hookEv'.delivered[i].status = s

\* C21 as stated: a status that appears for a document of the local
\* collection is the optimistic 'processing' placeholder or comes from the
\* backend response just handled.
C21_StatusFromBackend ==
  [][\A id \in HookIds : \A s \in StatusesOf(hookDocuments', id) \ StatusesOf(hookDocuments, id) :
       \/ s = "processing" /\ hookEv'.op \in {"process", "reprocess"} /\ hookEv'.id = id
       \/ Delivered(id, s)]_vars

\* C21: a status that appears for a document of the local collection is the
\* optimistic 'processing' placeholder, the 'error' set when the process or
\* reprocess request of that document failed, or comes from the backend
\* response just handled.
C21_StatusFromBackendOrFailure ==
  [][\A id \in HookIds : \A s \in StatusesOf(hookDocuments', id) \ StatusesOf(hookDocuments, id) :
       \/ s = "processing" /\ hookEv'.op \in {"process", "reprocess"} /\ hookEv'.id = id
       \/ s = "error" /\ hookEv'.op = "processFailed" /\ hookEv'.id = id
       \/ Delivered(id, s)]_vars

\* The process request of a listed document failed and the catch block
\* marked it 'error', a status no backend response carried.
C21_Witness ==
  /\ hookEv.op = "processFailed"
  /\ hookEv.delivered = << >>
  /\ StatusesOf(hookDocuments, hookEv.id) = {"error"}

\* The operations declared to return nothing (Promise<void>).
VoidOperations ==
  {"refreshTopics", "refreshDocuments", "refreshSystemHealth", "refreshAnalytics", "rateMessage"}

\* The failure values: null, false, an empty list, a zeroed object, and the
\* { status: 'failed' } object of autoDeduplicate.
Sentinels == {"null", "false", "emptyList", "zeroed", "failed"}

\* C22: a settled hook operation has not thrown; unless it is declared to
\* return nothing it has returned a defined value, which after a rejected
\* request or a success:false response is its sentinel.
C22_DefinedOrSentinel ==
  (opCall # NoCall /\ opResult # Pending) =>
     /\ ~opResult.threw
     /\ opCall.op \notin VoidOperations =>
          /\ opResult.returned # "undefined"
          /\ opResult.outcome \in {"rejected", "refused"} => opResult.returned \in Sentinels

\* The step ended a failed mutating operation of useDocuments.
DocumentOpFailed ==
  \/ hookEv'.op \in {"processFailed", "deleteFailed"}
  \/ hookEv'.op = "batchDone" /\ hookEv'.requested > 0 /\ hookEv'.toast = "error"

\* between before and after nothing changed but the status of the documents
\* of identifier id
OnlyStatusChanged(before, after, id) ==
  /\ Len(after) = Len(before)
  /\ \A i \in 1..Len(before) :
       /\ after[i].id = before[i].id
       /\ before[i].id # id => after[i] = before[i]

C24_ConfirmedBeforeRequest ==
  [][/\ \A req \in requests' \ requests :
          prompt' = [action |-> "reprocess", id |-> req.id, answer |-> "yes"]
     /\ \A q \in deletes' \ deletes :
          /\ prompt'.answer = "yes"
          /\ prompt'.action = q.kind
          /\ q.kind = "delete" => q.ids = {prompt'.id}
     /\ prompt'.answer = "no" =>
          /\ requests' = requests /\ deletes' = deletes
          /\ UNCHANGED <<loadingActions, deleteActions, processing, reprocessing,
                         processingTimers, selectedDocuments>>]_vars

\* The bulk delete prompt was declined with documents selected, a delete in
\* flight and a reprocess started.
C24_Witness ==
  /\ prompt = [action |-> "bulk", id |-> 0, answer |-> "no"]
  /\ selectedDocuments # {}
  /\ deletes # {}
  /\ requests # {}

\* C25: no two entries of the local document collection have the same
\* identifier.
C25_UniqueIds ==
  \A i, j \in 1..Len(hookDocuments) :
    hookDocuments[i].id = hookDocuments[j].id => i = j

RECURSIVE SubseqOf(_, _)
\* a is b with some of its entries left out
SubseqOf(a, b) ==
  IF a = << >> THEN TRUE
  ELSE IF b = << >> THEN FALSE
  ELSE IF Head(a) = Head(b) THEN SubseqOf(Tail(a), Tail(b))
  ELSE SubseqOf(a, Tail(b))

Unrated(ms) == [i \in 1..Len(ms) |-> [ms[i] EXCEPT !.rating = 0]]

\* C26: in every step of useChat the messages the step created are the end
\* of the new list, in the order of their creation, and what precedes them
\* is the old list in its old order with some messages left out, unchanged
\* but for the rating, which only a step of rateMessage changes.
C26_AppendOnlyInOrder ==
  [][LET k == Len(messages') - Len(chatEv'.appended)
     IN /\ k >= 0
        /\ SubSeq(messages', k + 1, Len(messages')) = chatEv'.appended
        /\ SubseqOf(Unrated(SubSeq(messages', 1, k)), Unrated(messages))
        /\ chatEv'.op \notin {"rate", "rateReply"} =>
             SubseqOf(SubSeq(messages', 1, k), messages)]_vars

\* Two sends overlapped, the second one was answered first, and the answer
\* was rated: the list is user, user, rated answer.
C26_Witness ==
  /\ host = "useChat"
  /\ Len(messages) = 3
  /\ messages[1].type = "user" /\ messages[2].type = "user"
  /\ messages[3].type = "assistant" /\ messages[3].rating # 0
  /\ Cardinality({q \in queries : q.kind = "query"}) = 1

\* C30: at most one query of useChat is in flight, and an answer is only
\* appended right after a user message.
C30_OneQueryInFlight ==
  host = "useChat" =>
    /\ Cardinality({q \in queries : q.kind = "query"}) <= 1
    /\ \A i \in 1..Len(messages) :
         messages[i].type = "assistant" /\ i > 1 => messages[i - 1].type = "user"

\* C27: when TopicManager applies the response of a request to its state, no
\* request of the same operation issued after it is in flight.
C27_SupersededDiscarded ==
  [][topicEv'.op = "reply" /\ topicEv'.applied =>
       ~\E q \in topicRequests' :
          q.by = "TopicManager" /\ q.kind = topicEv'.kind /\ q.n > topicEv'.n]_vars

\* C29: no completion toast for an identifier is emitted by the task that
\* starts a run for it or by the task that handles the failure of its start
\* request: a toast comes only after the start request has succeeded.
C29_ToastAfterStart ==
  \A t \in ev.toasts :
    ~(ev.op \in {"process", "reprocess", "startFailed"} /\ t.id = ev.id)


\* C28: at most one process request is in flight per document identifier: no
\* two unfinished calls of processDocument hold a request for the same
\* identifier.
C28_OneProcessInFlight ==
  \A a, b \in requests :
    (a.kind = "process" /\ b.kind = "process" /\ a.id = b.id) => a = b

====
